---- MODULE Spec2Model ----
(***************************************************************************)
(* The action queue of the indexer management API (resolvers), the         *)
(* ActionManager that executes queued actions inside a SERIALIZABLE store  *)
(* transaction, the AllocationManager it dispatches to, the IndexerWorker  *)
(* that polls for approved actions, and the CLI command that queues one.   *)
(***************************************************************************)
EXTENDS Integers, Sequences, FiniteSets, TLC

(***************************************************************************)
(* Values.  A column that holds SQL NULL / JS null is Null, a property     *)
(* that is absent from a JS object is Undefined.                           *)
(***************************************************************************)
Null == "null"
Undefined == "undefined"
\* a JS boolean held in a column or an input that may also be null or absent
JsTrue == "true"
JsFalse == "false"

ALLOCATE == "allocate"
UNALLOCATE == "unallocate"
REALLOCATE == "reallocate"
COLLECT == "collect"
ActionType == {ALLOCATE, UNALLOCATE, REALLOCATE, COLLECT}

QUEUED == "queued"
APPROVED == "approved"
PENDING == "pending"
SUCCESS == "success"
FAILED == "failed"
CANCELED == "canceled"
ActionStatus == {QUEUED, APPROVED, PENDING, SUCCESS, FAILED, CANCELED}

(***************************************************************************)
(* Bounds of the model.                                                    *)
(***************************************************************************)
\* rows of the Action table in the queue specification
MaxStored == 3
\* rows of the Action table in the fetch specification
MaxRows == 2

(***************************************************************************)
(* The universe the inputs are drawn from.                                 *)
(***************************************************************************)
DeploymentC == "QmZSJPm74tvhgr8uzhqvyQm2J6YSbUEj4nF6j8WxxUQLsC"
AllocationA == "0x8f63930129e585c69482b56390a09b6b176f4a4c"
Agent == "indexerAgent"
Rule == "indexingRule"
\* the CLI's defaults for --source and --reason
DefaultSource == "indexerCLI"
DefaultReason == "manual"
DefaultPriority == 0

VARIABLES
    actions,      \* the Action table: a sequence of rows, row i has id i
    resp,         \* the reply to the last request of the management API / CLI
    currentEpoch, \* epochManager.currentEpoch()
    freeStake,    \* staking.getIndexerCapacity(indexer)
    allocations,  \* the indexer's allocations in the staking contract
    rules,        \* the IndexingRule table, by deployment
    receipts,     \* the ReceiptCollector: allocations remembered and collected
    last,         \* the last call made on the AllocationManager directly
    proc,         \* each executeActions call: its arguments, locals and position
    txn,          \* each call's store transaction
    hist          \* each call's history: what it selected and dispatched

store == <<actions, resp>>
network == <<currentEpoch, freeStake, allocations, rules, receipts, last>>
calls == <<proc, txn, hist>>
vars == <<actions, resp, currentEpoch, freeStake, allocations, rules, receipts,
         last, proc, txn, hist>>

NoResp == [op |-> "none", ok |-> TRUE, arg |-> <<>>, out |-> <<>>, missing |-> {}]

(***************************************************************************)
(* ActionInput, as the GraphQL mutation receives it: type, status, source  *)
(* and reason are required by the schema, the rest may be absent.          *)
(***************************************************************************)
MkInput(type, status, deploymentID, allocationID, amount, poi, force, source, reason) ==
    [type |-> type, status |-> status, deploymentID |-> deploymentID,
     allocationID |-> allocationID, amount |-> amount, poi |-> poi,
     force |-> force, source |-> source, reason |-> reason, priority |-> 0]

queuedAllocateAction ==
    MkInput(ALLOCATE, QUEUED, DeploymentC, Undefined, "10000", Undefined, JsFalse, Agent, Rule)
queuedUnallocateAction ==
    MkInput(UNALLOCATE, QUEUED, Undefined, AllocationA, Undefined, Undefined, JsFalse, Agent, Rule)
queuedReallocateAction ==
    MkInput(REALLOCATE, QUEUED, Undefined, AllocationA, "27000", Undefined, JsFalse, Agent, Rule)
queuedCollectAction ==
    MkInput(COLLECT, QUEUED, Undefined, AllocationA, Undefined, Undefined, JsFalse, Agent, Rule)

\* what a client of the mutation may send besides the fixtures: an action
\* that is approved from the start, and actions without their parameters
ApiInputs ==
    {queuedAllocateAction, queuedUnallocateAction, queuedReallocateAction,
     queuedCollectAction,
     MkInput(ALLOCATE, APPROVED, DeploymentC, Undefined, "10000", Undefined, JsFalse, DefaultSource, DefaultReason),
     MkInput(ALLOCATE, QUEUED, DeploymentC, Undefined, Undefined, Undefined, Undefined, Agent, Rule),
     MkInput(COLLECT, QUEUED, Undefined, Undefined, Undefined, Undefined, Undefined, DefaultSource, Rule)}

ApiBatches ==
    {<<a>> : a \in ApiInputs} \cup
    {<<a, b>> : a \in {queuedAllocateAction, queuedCollectAction},
                b \in {queuedUnallocateAction, queuedReallocateAction}}

(***************************************************************************)
(* models.Action.bulkCreate: every input becomes a row with the next id of *)
(* the table's sequence; a property the input lacks is stored as NULL.     *)
(***************************************************************************)
NullIfUndefined(v) == IF v = Undefined THEN Null ELSE v

ToRow(input, id) ==
    [id |-> id, type |-> input.type, status |-> input.status,
     deploymentID |-> NullIfUndefined(input.deploymentID),
     allocationID |-> NullIfUndefined(input.allocationID),
     amount |-> NullIfUndefined(input.amount),
     poi |-> NullIfUndefined(input.poi),
     force |-> NullIfUndefined(input.force),
     source |-> input.source, reason |-> input.reason,
     priority |-> input.priority, transaction |-> Null]

Created(table, inputs) ==
    [i \in 1..Len(inputs) |-> ToRow(inputs[i], Len(table) + i)]

BulkCreate(table, inputs) == table \o Created(table, inputs)

(***************************************************************************)
(* resolver queueActions                                                   *)
(***************************************************************************)
\* mutant: the resolver overrides the status of the input with QUEUED
QueueActionsForcingQueued(inputs) ==
    LET forced == [i \in 1..Len(inputs) |-> [inputs[i] EXCEPT !.status = QUEUED]]
    IN  /\ actions' = BulkCreate(actions, forced)
        /\ resp' = [op |-> "queueActions", ok |-> TRUE, arg |-> inputs,
                    out |-> Created(actions, forced), missing |-> {}]
        /\ UNCHANGED <<network, calls>>

QueueActions(inputs) ==
    /\ actions' = BulkCreate(actions, inputs)
    /\ resp' = [op |-> "queueActions", ok |-> TRUE, arg |-> inputs,
                out |-> Created(actions, inputs), missing |-> {}]
    /\ UNCHANGED <<network, calls>>

(***************************************************************************)
(* The CLI: graph indexer actions queue <type> <target> <param1..3>.       *)
(***************************************************************************)
GenericParams(target, param1, param2, param3) ==
    [target |-> target, param1 |-> param1, param2 |-> param2, param3 |-> param3]

\* validateActionInput: the fields each type requires
RequiredFields(type) ==
    IF type = ALLOCATE THEN {"target", "param1"}
    ELSE IF type = UNALLOCATE THEN {"target"}
    ELSE IF type = REALLOCATE THEN {"target", "param1"}
    ELSE IF type = COLLECT THEN {"target"}
    ELSE {}

\* validateRequiredParams (command-helpers): the required fields that are
\* undefined; it throws, naming them, when there is one
MissingFields(actionParams, requiredFields) ==
    {f \in requiredFields : actionParams[f] = Undefined}

ValidateActionInput(type, actionParams) ==
    MissingFields(actionParams, RequiredFields(type))

\* param === 'true'
IsTrueString(v) == IF v = "true" THEN JsTrue ELSE JsFalse

BuildActionInput(type, p, source, reason, status, priority) ==
    LET common == [type |-> type, source |-> source, reason |-> reason,
                   status |-> status, priority |-> priority,
                   deploymentID |-> Undefined, allocationID |-> Undefined,
                   amount |-> Undefined, poi |-> Undefined, force |-> Undefined]
    IN  CASE type = ALLOCATE ->
               [common EXCEPT !.deploymentID = p.target, !.amount = p.param1]
          [] type = UNALLOCATE ->
               [common EXCEPT !.allocationID = p.target, !.poi = p.param1,
                              !.force = IsTrueString(p.param2)]
          [] type = REALLOCATE ->
               [common EXCEPT !.allocationID = p.target, !.amount = p.param1,
                              !.poi = p.param2, !.force = IsTrueString(p.param3)]
          [] type = COLLECT ->
               [common EXCEPT !.allocationID = p.target]

\* the arguments the command is run with in the model
CliTargets == {Undefined, AllocationA}
CliParams == {Undefined, "10000"}

\* queue command run: build (and validate) the input, then send the mutation
QueueCommand(type, p, s, r) ==
    LET decisionSource == IF s = Undefined THEN DefaultSource ELSE s
        decisionReason == IF r = Undefined THEN DefaultReason ELSE r
        missing == ValidateActionInput(type, p)
        input == BuildActionInput(type, p, decisionSource, decisionReason,
                                  QUEUED, DefaultPriority)
    IN  /\ UNCHANGED <<network, calls>>
        /\ IF missing # {}
           THEN /\ resp' = [op |-> "queueCommand", ok |-> FALSE,
                            arg |-> <<type, p>>, out |-> <<>>,
                            missing |-> missing]
                /\ UNCHANGED actions
           ELSE /\ actions' = BulkCreate(actions, <<input>>)
                /\ resp' = [op |-> "queueCommand", ok |-> TRUE,
                            arg |-> <<type, p>>,
                            out |-> Created(actions, <<input>>), missing |-> {}]

(***************************************************************************)
(* ActionManager.fetchActions and the actions query                        *)
(***************************************************************************)
FilterKeys == {"type", "status", "source", "reason"}

\* mutant: the filter handed to findAll as it came, undefined values kept
JSONRoundTripKeepsUndefined(filter) == filter

\* JSON.parse(JSON.stringify(filter)): a property whose value is undefined
\* is not serialized, so the parsed object lacks it
JSONRoundTrip(filter) ==
    [k \in {k \in DOMAIN filter : filter[k] # Undefined} |-> filter[k]]

\* models.Action.findAll({ where }): the rows equal to `where` on its keys
FindAll(table, where) ==
    SelectSeq(table, LAMBDA row : \A k \in DOMAIN where : row[k] = where[k])

FetchActions(table, filter) == FindAll(table, JSONRoundTrip(filter))

Filters ==
    [type : {Undefined, ALLOCATE},
     status : {Undefined, QUEUED, APPROVED, CANCELED},
     source : {Undefined, Agent},
     reason : {Undefined, Null, DefaultReason}]

Actions(filter) ==
    /\ resp' = [op |-> "actions", ok |-> TRUE, arg |-> filter,
                out |-> FetchActions(actions, filter), missing |-> {}]
    /\ UNCHANGED <<actions, network, calls>>

(***************************************************************************)
(* resolvers approveActions and cancelActions:                             *)
(* models.Action.update({ status }, { where: { id: actionIDs } })          *)
(***************************************************************************)
\* the callers of executeActions: the executeActions resolver and the worker
Procs == {"manual", "worker"}

\* the caller's transaction is in progress
Active(p) == proc[p].pc \notin {"idle", "failed", "fetched", "done"}

UpdateStatusEverywhere(table, ids, status) ==
    [i \in 1..Len(table) |-> [table[i] EXCEPT !.status = status]]

UpdateStatusDroppingReason(table, ids, status) ==
    [i \in 1..Len(table) |->
        IF table[i].id \in ids
        THEN [table[i] EXCEPT !.status = status, !.reason = Null]
        ELSE table[i]]

UpdateStatusWhereIds(table, ids, status) ==
    [i \in 1..Len(table) |->
        IF table[i].id \in ids THEN [table[i] EXCEPT !.status = status] ELSE table[i]]

Returning(table, ids) == SelectSeq(table, LAMBDA row : row.id \in ids)

IdBatches == SUBSET (1..(MaxRows + 1)) \ {{}}

SetStatusResolverAlwaysOk(op, ids, status) ==
    /\ actions' = UpdateStatusWhereIds(actions, ids, status)
    /\ resp' = [op |-> op, ok |-> TRUE, arg |-> ids,
                out |-> Returning(UpdateStatusWhereIds(actions, ids, status), ids),
                missing |-> {}]
    /\ UNCHANGED <<network, calls>>

SetStatusResolver(op, ids, status) ==
    LET updated == Returning(UpdateStatusWhereIds(actions, ids, status), ids)
        rows == {updated[k].id : k \in DOMAIN updated}
    IN  /\ \A q \in Procs : Active(q) => rows \cap txn[q].writes = {}
        /\ actions' = UpdateStatusWhereIds(actions, ids, status)
        /\ resp' = [op |-> op, ok |-> Len(updated) # 0, arg |-> ids,
                    out |-> updated, missing |-> {}]
        /\ txn' = [q \in Procs |->
              IF Active(q) THEN [txn[q] EXCEPT !.changed = @ \cup rows]
              ELSE txn[q]]
        /\ UNCHANGED <<network, proc, hist>>

CancelActions(ids) == SetStatusResolver("cancelActions", ids, CANCELED)

(***************************************************************************)
(* resolver updateAction:                                                  *)
(* models.Action.update(action, { where: { id: action.id } })              *)
(***************************************************************************)
\* the row with the action's id takes every field of the action
UpdateWhereId(table, action) ==
    [i \in 1..Len(table) |->
        IF table[i].id = action.id THEN action ELSE table[i]]

\* the update is applied before the number of updated rows is looked at
UpdateAction(action) ==
    LET updatedActions == Returning(UpdateWhereId(actions, action), {action.id})
    IN  /\ \A q \in Procs : Active(q) => action.id \notin txn[q].writes
        /\ actions' = UpdateWhereId(actions, action)
        /\ resp' = [op |-> "updateAction", ok |-> Len(updatedActions) = 1,
                    arg |-> action, out |-> updatedActions, missing |-> {}]
        /\ txn' = [q \in Procs |->
              IF Active(q) /\ Len(updatedActions) # 0
              THEN [txn[q] EXCEPT !.changed = @ \cup {action.id}]
              ELSE txn[q]]
        /\ UNCHANGED <<network, proc, hist>>

ApproveActions(ids) == SetStatusResolver("approveActions", ids, APPROVED)

(***************************************************************************)
(* The network as the AllocationManager sees it.  The NetworkMonitor and   *)
(* the network subgraph report the contract's allocations as they are.     *)
(***************************************************************************)
DeploymentOld == "QmXZiV6S13ha6QXq4dmaM3TB4CHcDxBMvGexSNu9Kc28EH"
DeploymentD == "QmWmyoMoctfbAaiEs2G46gpeUmhqFRDW6KWo64y5r581Vz"
Deployments == {DeploymentC, DeploymentOld, DeploymentD}

\* enum AllocationState { Null, Active, Closed, Finalized, Claimed }
StateNull == 0
StateActive == 1
StateClosed == 2

ALWAYS == "always"
OFFCHAIN == "offchain"
NoRule == [decisionBasis |-> Null, amount |-> Null]

Net == [freeStake |-> freeStake, allocations |-> allocations,
        rules |-> rules, receipts |-> receipts]

\* what the collaborators answer during one dispatch: the Transaction
\* Manager's result, and whether a collaborator called before the
\* transaction (SubgraphManager.ensure, resolvePOI, the subgraph query) or
\* after it (ReceiptCollector, IndexingRule.upsert) throws
TxResults == {"receipt", "noevent", "paused", "unauthorized", "reverted"}

\* the receipts that lack some of the events: "norewards" and "zerorewards"
\* have no RewardsAssigned event or one with amount 0, "nocreate" has no
\* AllocationCreated event, "noclose" no AllocationClosed event, "noevent"
\* none at all; "receipt" has every event
PartialReceipts == {"norewards", "zerorewards", "nocreate", "noclose"}

HasCreatedAlways(receipt) == TRUE

\* events.find(... getEventTopic('AllocationCreated'))
HasCreated(receipt) == receipt \in {"receipt", "norewards", "zerorewards", "noclose"}

HasClosedAlways(receipt) == TRUE

\* events.find(... getEventTopic('AllocationClosed'))
HasClosed(receipt) == receipt \in {"receipt", "norewards", "zerorewards", "nocreate"}

\* the amount of a RewardsAssigned event that assigns rewards
SomeRewards == 7

\* rewardsEvent ? decodeEventLog('RewardsAssigned', ...).amount : 0
RewardsAssigned(receipt) == IF receipt = "receipt" THEN SomeRewards ELSE 0
Env == [tx : TxResults, collaborator : {"ok", "throwsBefore", "throwsPOI",
                                        "throwsAfter"}]

\* the outcome of a call: the error it threw ("none": it returned), the
\* network it leaves, and the calls it made on its collaborators, in order
Threw(net, error, called) ==
    [threw |-> TRUE, error |-> error, net |-> net, called |-> called,
     rewards |-> 0]
Returned(net, called) ==
    [threw |-> FALSE, error |-> "none", net |-> net, called |-> called,
     rewards |-> 0]

\* the last call made on the AllocationManager: its arguments, the answers
\* of the collaborators, its outcome and, when takeAction made it, the action
NoCall == [op |-> "none", target |-> Undefined, amount |-> 0,
           poi |-> Undefined, force |-> JsFalse, action |-> [id |-> 0],
           env |-> [tx |-> "receipt", collaborator |-> "ok"],
           threw |-> FALSE, error |-> "none", called |-> <<>>, rewards |-> 0]

\* networkMonitor.allocations(AllocationStatus.Active)
ActiveAllocations(net) == {a \in net.allocations : a.state = StateActive}

\* staking.getAllocationState(id)
GetAllocationState(net, id) ==
    IF \E a \in net.allocations : a.id = id
    THEN (CHOOSE a \in net.allocations : a.id = id).state
    ELSE StateNull

\* the i-th allocation id derived from the wallet for (epoch, deployment)
DerivedId(epoch, deployment, i) ==
    "0x" \o deployment \o "/" \o ToString(epoch) \o "/" \o ToString(i)

\* uniqueAllocationID: the first derived id that is not among the existing
UniqueAllocationID(epoch, deployment, existing) ==
    LET free == {i \in 0..Cardinality(existing) :
                    DerivedId(epoch, deployment, i) \notin existing}
    IN  DerivedId(epoch, deployment, CHOOSE i \in free : \A k \in free : i <= k)

CloseOnChain(net, a) ==
    [net EXCEPT !.allocations = (@ \ {a}) \cup {[a EXCEPT !.state = StateClosed]},
                !.freeStake = @ + a.allocatedTokens]

CreateOnChainKeepingStake(net, id, deployment, amount) ==
    [net EXCEPT !.allocations = @ \cup {[id |-> id, deployment |-> deployment,
                                         allocatedTokens |-> amount,
                                         createdAtEpoch |-> currentEpoch,
                                         state |-> StateActive]}]

\* allocateFrom is mined: the allocation is Active, its tokens are not free
CreateOnChain(net, id, deployment, amount) ==
    [net EXCEPT !.allocations = @ \cup {[id |-> id, deployment |-> deployment,
                                         allocatedTokens |-> amount,
                                         createdAtEpoch |-> currentEpoch,
                                         state |-> StateActive]},
                !.freeStake = @ - amount]

\* models.IndexingRule.upsert of a partial rule: the fields given replace
UpsertRuleKeepingBasis(net, deployment, basis, amount) ==
    [net EXCEPT !.rules[deployment] =
        [decisionBasis |-> @.decisionBasis,
         amount |-> IF amount = Undefined THEN @.amount ELSE amount]]

UpsertRule(net, deployment, basis, amount) ==
    [net EXCEPT !.rules[deployment] =
        [decisionBasis |-> basis,
         amount |-> IF amount = Undefined THEN @.amount ELSE amount]]

(***************************************************************************)
(* AllocationManager.allocate                                              *)
(***************************************************************************)
AmountIsZeroNever(amount) == FALSE

\* amount.eq('0')
AmountIsZero(amount) == amount = 0

InsufficientStakeNever(stake, amount) == FALSE

\* freeStake.lt(amount)
InsufficientStake(stake, amount) == stake < amount

RefusedOnlyWhenPaused(receipt) == receipt = "paused"

\* receipt === 'paused' || receipt === 'unauthorized'
Refused(receipt) == receipt \in {"paused", "unauthorized"}

AlreadyOnChainNever(state) == FALSE

\* state !== 0
AlreadyOnChain(state) == state # StateNull

\* what allocate reads first: the active allocations and the capacity
NoRead == [freeStake |-> 0, allocations |-> {}]

\* the checks up to the capacity check, on the network as it was read
AllocateChecks(read, net, deployment, amount) ==
    LET activeAllocations == ActiveAllocations(read)
        c0 == <<"networkMonitor.allocations">>
        c1 == c0 \o <<"epochManager.currentEpoch", "staking.getIndexerCapacity">>
    IN  IF \E a \in activeAllocations : a.deployment = deployment
        THEN Threw(net, "active allocation exists", c0)
        ELSE IF amount < 0 THEN Threw(net, "negative amount", c0)
        ELSE IF AmountIsZero(amount) THEN Threw(net, "zero amount", c0)
        ELSE IF InsufficientStake(read.freeStake, amount) THEN Threw(net, "IE013", c1)
        ELSE Returned(net, c1)

\* the allocation id allocate derives from the active allocations it read
AllocationIdFrom(read, deployment) ==
    UniqueAllocationID(currentEpoch, deployment,
                       {a.id : a \in ActiveAllocations(read)})

\* allocate, with the active allocations and the capacity as they were read
\* (read) and the contract as it is when the derived id is checked and the
\* transaction is submitted (net)
AllocateFrom(read, net, deployment, amount, e) ==
    LET checked == AllocateChecks(read, net, deployment, amount)
        allocationId == AllocationIdFrom(read, deployment)
        mined == CreateOnChain(net, allocationId, deployment, amount)
        remembered == [mined EXCEPT !.receipts.remembered = @ \cup {allocationId}]
        c2 == checked.called \o <<"subgraphManager.ensure">>
        c3 == c2 \o <<"staking.getAllocationState">>
        c4 == c3 \o <<"executeTransaction">>
        c5 == c4 \o <<"receiptCollector.rememberAllocations">>
        c6 == c5 \o <<"IndexingRule.upsert">>
    IN  IF checked.threw THEN checked
        ELSE IF e.collaborator = "throwsBefore" THEN Threw(net, "collaborator", c2)
        ELSE IF AlreadyOnChain(GetAllocationState(net, allocationId))
        THEN Threw(net, "already exists onchain", c3)
        ELSE IF e.tx = "reverted" THEN Threw(net, "reverted", c4)
        ELSE IF Refused(e.tx) THEN Threw(net, e.tx, c4)
        ELSE IF ~HasCreated(e.tx) THEN Threw(net, "IE014", c4)
        ELSE IF e.collaborator = "throwsAfter" THEN Threw(mined, "collaborator", c5)
        ELSE Returned(UpsertRule(remembered, deployment, ALWAYS, ToString(amount)), c6)

\* allocate when nothing changes the network between its reads
Allocate(net, deployment, amount, e) == AllocateFrom(net, net, deployment, amount, e)

(***************************************************************************)
(* AllocationManager.unallocate                                            *)
(***************************************************************************)
\* networkMonitor.allocation(id): the allocation with this id
HasAllocation(net, id) == \E a \in net.allocations : a.id = id
AllocationById(net, id) == CHOOSE a \in net.allocations : a.id = id

AlreadyClosedNever(state) == FALSE

AlreadyClosedOnlyWhenNull(state) == state = StateNull

\* state !== 1
AlreadyClosed(state) == state # StateActive

CreatedAfterEpoch(allocation, epoch) == allocation.createdAtEpoch > epoch

\* BigNumber.from(allocation.createdAtEpoch).eq(currentEpoch)
CreatedThisEpoch(allocation, epoch) == allocation.createdAtEpoch = epoch

Unallocate(net, allocationID, poi, force, e) ==
    LET u0 == <<"networkMonitor.allocation">>
        u1 == u0 \o <<"epochManager.currentEpoch">>
        u2 == u1 \o <<"networkMonitor.resolvePOI">>
        u3 == u2 \o <<"staking.getAllocationState">>
        u4 == u3 \o <<"executeTransaction">>
        u5 == u4 \o <<"receiptCollector.collectReceipts">>
        u6 == u5 \o <<"IndexingRule.upsert">>
    IN
    IF ~HasAllocation(net, allocationID) THEN Threw(net, "allocation not found", u0)
    ELSE
    LET allocation == AllocationById(net, allocationID)
        mined == CloseOnChain(net, allocation)
        collected == [mined EXCEPT !.receipts.collected = @ \cup {allocation.id}]
    IN  IF CreatedThisEpoch(allocation, currentEpoch)
        THEN Threw(net, "created this epoch", u1)
        ELSE IF e.collaborator = "throwsBefore" THEN Threw(net, "collaborator", u2)
        ELSE IF AlreadyClosed(GetAllocationState(net, allocation.id))
        THEN Threw(net, "already closed", u3)
        ELSE IF e.tx = "reverted" THEN Threw(net, "reverted", u4)
        ELSE IF Refused(e.tx) THEN Threw(net, e.tx, u4)
        ELSE IF ~HasClosed(e.tx) THEN Threw(net, "IE014", u4)
        ELSE IF e.collaborator = "throwsAfter" THEN Threw(mined, "collaborator", u5)
        ELSE [Returned(UpsertRule(collected, allocation.deployment, OFFCHAIN,
                                  Undefined), u6)
                EXCEPT !.rewards = RewardsAssigned(e.tx)]

(***************************************************************************)
(* AllocationManager.reallocate                                            *)
(***************************************************************************)
PostCloseFreeStakeWithoutTokens(stake, allocation) == stake

\* freeStake.add(allocation.allocatedTokens)
PostCloseFreeStake(stake, allocation) == stake + allocation.allocatedTokens

\* reallocate, with the active allocations as the network subgraph reports
\* them (read) and the contract as it is (net)
ReallocateFrom(read, net, allocationID, poi, amount, force, e) ==
    LET activeAllocations == ActiveAllocations(read)
        r0 == <<"networkSubgraph.query">>
        r1 == r0 \o <<"epochManager.currentEpoch">>
        r2 == r1 \o <<"networkMonitor.resolvePOI">>
        r3 == r2 \o <<"staking.getAllocationState">>
        r4 == r3 \o <<"staking.getIndexerCapacity">>
        r5 == r4 \o <<"staking.getAllocationState">>
        r6 == r5 \o <<"executeTransaction">>
        r7 == r6 \o <<"receiptCollector.collectReceipts">>
        r8 == r7 \o <<"IndexingRule.upsert">>
    IN
    IF e.collaborator = "throwsBefore" THEN Threw(net, "IE010", r0)
    ELSE IF ~\E a \in activeAllocations : a.id = allocationID
    THEN Threw(net, "no active allocation", r0)
    ELSE
    LET allocation == CHOOSE a \in activeAllocations : a.id = allocationID
        postCloseFreeStake == PostCloseFreeStake(net.freeStake, allocation)
        newAllocationId == UniqueAllocationID(currentEpoch, allocation.deployment,
                                              {a.id : a \in activeAllocations})
        mined == CreateOnChain(CloseOnChain(net, allocation), newAllocationId,
                               allocation.deployment, amount)
        collected == [mined EXCEPT !.receipts.collected = @ \cup {allocation.id}]
    IN  IF CreatedThisEpoch(allocation, currentEpoch)
        THEN Threw(net, "created this epoch", r1)
        ELSE IF e.collaborator = "throwsPOI" THEN Threw(net, "collaborator", r2)
        ELSE IF AlreadyClosed(GetAllocationState(net, allocation.id))
        THEN Threw(net, "already closed", r3)
        ELSE IF amount < 0 THEN Threw(net, "negative amount", r3)
        ELSE IF AmountIsZero(amount) THEN Threw(net, "zero amount", r3)
        ELSE IF postCloseFreeStake < amount THEN Threw(net, "IE013", r4)
        ELSE IF AlreadyOnChain(GetAllocationState(net, newAllocationId))
        THEN Threw(net, "already exists onchain", r5)
        ELSE IF e.tx = "reverted" THEN Threw(net, "reverted", r6)
        ELSE IF Refused(e.tx) THEN Threw(net, e.tx, r6)
        ELSE IF ~HasCreated(e.tx) THEN Threw(net, "IE014", r6)
        ELSE IF ~HasClosed(e.tx) THEN Threw(net, "IE014", r6)
        ELSE IF e.collaborator = "throwsAfter" THEN Threw(mined, "collaborator", r7)
        ELSE [Returned(UpsertRule(collected, allocation.deployment, ALWAYS,
                                  ToString(amount)), r8)
                EXCEPT !.rewards = RewardsAssigned(e.tx)]

\* reallocate when the subgraph reports the contract's allocations as they are
Reallocate(net, allocationID, poi, amount, force, e) ==
    ReallocateFrom(net, net, allocationID, poi, amount, force, e)

(***************************************************************************)
(* AllocationManager.collect                                               *)
(***************************************************************************)
Collect(net, allocationID, e) ==
    LET k0 == <<"networkMonitor.allocation">>
        k1 == k0 \o <<"receiptCollector.collectReceipts">>
    IN  IF ~HasAllocation(net, allocationID)
        THEN Threw(net, "allocation not found", k0)
        ELSE IF e.collaborator # "ok" THEN Threw(net, "collaborator", k1)
        ELSE Returned([net EXCEPT !.receipts.collected = @ \cup {allocationID}], k1)

(***************************************************************************)
(* ActionManager.takeAction                                                *)
(***************************************************************************)
\* BigNumber.from(amount): the amounts of the model and their values; any
\* other value (null among them) makes it throw
Numeric == {"10000", "27000", "0"}
BigNumberFrom(amount) ==
    CASE amount = "10000" -> 10000
      [] amount = "27000" -> 27000
      [] amount = "0" -> 0

UndefinedIfNullKeepingNull(poi) == poi

\* action.poi === null ? undefined : action.poi
UndefinedIfNull(poi) == IF poi = Null THEN Undefined ELSE poi

\* action.force === null ? false : action.force
FalseIfNull(force) == IF force = Null THEN JsFalse ELSE force

\* the active allocations the network subgraph reports: the contract's, or,
\* while the subgraph lags behind the chain, with the allocations closed
\* since still reported Active
SubgraphView(net, e) ==
    IF e.subgraph = "lagging"
    THEN [net EXCEPT !.allocations =
            {[a EXCEPT !.state = IF @ = StateClosed THEN StateActive ELSE @] :
                a \in net.allocations}]
    ELSE net

\* the AllocationManager call takeAction makes for an action, with its
\* arguments: "throws" when building an argument throws, "none" when no
\* branch matches the type
ManagerCall(action) ==
    LET call(op, target, amount, poi, force) ==
            [op |-> op, target |-> target, amount |-> amount,
             poi |-> poi, force |-> force]
        no(op) == call(op, Undefined, 0, Undefined, JsFalse)
    IN  IF action.type = ALLOCATE THEN
            IF action.deploymentID \notin Deployments \/ action.amount \notin Numeric
            THEN no("throws")
            ELSE call("allocate", action.deploymentID, BigNumberFrom(action.amount),
                      Undefined, JsFalse)
        ELSE IF action.type = UNALLOCATE THEN
            call("unallocate", action.allocationID, 0,
                 UndefinedIfNull(action.poi), FalseIfNull(action.force))
        ELSE IF action.type = REALLOCATE THEN
            IF action.amount \notin Numeric
            THEN no("throws")
            ELSE call("reallocate", action.allocationID, BigNumberFrom(action.amount),
                      UndefinedIfNull(action.poi), FalseIfNull(action.force))
        ELSE IF action.type = COLLECT THEN
            call("collect", action.allocationID, 0, Undefined, JsFalse)
        ELSE no("none")

TakeAction(action, net, e) ==
    LET call == ManagerCall(action)
    IN  CASE call.op = "allocate" -> Allocate(net, call.target, call.amount, e)
          [] call.op = "unallocate" ->
                Unallocate(net, call.target, call.poi, call.force, e)
          [] call.op = "reallocate" ->
                Reallocate(net, call.target, call.poi, call.amount, call.force, e)
          [] call.op = "collect" -> Collect(net, call.target, e)
          [] call.op = "throws" -> Threw(net, "invalid argument", <<>>)
          [] call.op = "none" -> Returned(net, <<>>)

(***************************************************************************)
(* ActionManager.executeActions.  Each caller runs the method as a         *)
(* sequence of awaited steps inside one SERIALIZABLE transaction: the      *)
(* transaction reads its snapshot of the table (view) and its writes       *)
(* reach the table when it commits.                                        *)
(***************************************************************************)
NoAction == [id |-> 0]

IdleProc == [pc |-> "idle", actionIDs |-> {}, force |-> FALSE, phase |-> 0,
             todo |-> {}, action |-> NoAction, threw |-> FALSE,
             updatedActions |-> <<>>, read |-> NoRead]

\* view: the table as the transaction sees it; writes: the ids it updated;
\* changed: the ids a commit changed after the snapshot was taken;
\* rw: a concurrent serializable transaction that wrote has committed
NoTxn == [view |-> <<>>, writes |-> {}, changed |-> {}, rw |-> FALSE]

\* the record of one call: the table and the free stake when it began, every
\* dispatch with its outcome, how often takeAction ran, and how the call ended
NoHist == [before |-> <<>>, stake |-> 0, dispatched |-> <<>>, n |-> 0,
           returnedAfterThrow |-> FALSE, result |-> "none", ret |-> <<>>]

Quiet == \A p \in Procs : proc[p].pc = "idle"

RowSet(rows) == {rows[k] : k \in DOMAIN rows}

\* if (!force)
SweepsApprovedAlways(force) == TRUE

SweepsApproved(force) == ~force

ApprovedActionsAnyStatus(view) == view

\* findAll({ where: { status: APPROVED }, transaction })
ApprovedActionsFindOne(view) ==
    IF FindAll(view, [status |-> APPROVED]) = <<>> THEN <<>>
    ELSE <<Head(FindAll(view, [status |-> APPROVED]))>>

ApprovedActions(view) == FindAll(view, [status |-> APPROVED])

\* findAll({ where: { status: QUEUED }, transaction }).filter(includes)
QueuedActionsUnfiltered(view, actionIDs) == FindAll(view, [status |-> QUEUED])

QueuedActionsSpecified(view, actionIDs) ==
    SelectSeq(FindAll(view, [status |-> QUEUED]),
              LAMBDA action : action.id \in actionIDs)

\* the status the try block and the catch block write
StatusAfterAlwaysSuccess(threw) == SUCCESS

StatusAfter(threw) == IF threw THEN FAILED ELSE SUCCESS

\* updatedActions.concat(updatedAction): Array.prototype.concat returns a
\* new array, which the statement discards; updatedActions stays as it was
ConcatStatement(updatedActions, updatedAction) == updatedActions

AfterLoopLeavingSweep(phase, todo) ==
    IF phase = 1 THEN "findQueued"
    ELSE IF todo # {} THEN "takeAction"
    ELSE "commit"

\* where the method goes after a loop iteration, or after a findAll
AfterLoop(phase, todo) ==
    IF todo # {} THEN "takeAction"
    ELSE IF phase = 1 THEN "findQueued"
    ELSE "commit"

\* sequelize.transaction(SERIALIZABLE, callback) up to the first findAll,
\* which takes the snapshot
ExecuteActions(p, actionIDs, force) ==
    LET todo == IF SweepsApproved(force)
                THEN RowSet(ApprovedActions(actions))
                ELSE RowSet(QueuedActionsSpecified(actions, actionIDs))
        phase == IF SweepsApproved(force) THEN 1 ELSE 2
    IN  /\ proc' = [proc EXCEPT ![p] =
              [pc |-> AfterLoop(phase, todo), actionIDs |-> actionIDs,
               force |-> force, phase |-> phase, todo |-> todo,
               action |-> NoAction, threw |-> FALSE, updatedActions |-> <<>>,
               read |-> NoRead]]
        /\ txn' = [txn EXCEPT ![p] = [NoTxn EXCEPT !.view = actions]]
        /\ hist' = [hist EXCEPT ![p] = [NoHist EXCEPT !.before = actions,
                                                       !.stake = freeStake]]
        /\ resp' = IF p = "manual" THEN NoResp ELSE resp
        /\ UNCHANGED <<actions, network>>

\* for (const action of ...) { try { await this.takeAction(action)
DispatchAction(p, envs) ==
    /\ proc[p].pc = "takeAction"
    /\ \E action \in proc[p].todo, e \in envs :
          LET r == TakeAction(action, Net, e)
          IN  /\ freeStake' = r.net.freeStake
              /\ allocations' = r.net.allocations
              /\ rules' = r.net.rules
              /\ receipts' = r.net.receipts
              /\ proc' = [proc EXCEPT ![p].pc = "update",
                                      ![p].todo = @ \ {action},
                                      ![p].action = action,
                                      ![p].threw = r.threw]
              /\ hist' = [hist EXCEPT
                    ![p].dispatched = (action.id :> r.error) @@ @,
                    ![p].n = @ + 1,
                    ![p].returnedAfterThrow =
                        @ \/ (~r.threw /\ \E id \in DOMAIN hist[p].dispatched :
                                              hist[p].dispatched[id] # "none")]
    /\ UNCHANGED <<store, currentEpoch, last, txn>>

\* takeAction of an ALLOCATE action, up to the capacity check of allocate:
\* the awaits of allocate let the steps of an overlapping call run between
\* its reads and its transaction
BeginAllocate(p) ==
    /\ proc[p].pc = "takeAction"
    /\ \E action \in proc[p].todo :
          LET call == ManagerCall(action)
              checked == AllocateChecks(Net, Net, call.target, call.amount)
          IN  /\ call.op = "allocate"
              /\ IF checked.threw
                 THEN /\ proc' = [proc EXCEPT ![p].pc = "update",
                                              ![p].todo = @ \ {action},
                                              ![p].action = action,
                                              ![p].threw = TRUE]
                      /\ hist' = [hist EXCEPT
                            ![p].dispatched = (action.id :> checked.error) @@ @,
                            ![p].n = @ + 1]
                      /\ last' = [NoCall EXCEPT
                            !.op = "allocate", !.target = call.target,
                            !.amount = call.amount, !.action = action,
                            !.threw = TRUE, !.error = checked.error,
                            !.called = checked.called]
                 ELSE /\ proc' = [proc EXCEPT
                            ![p].pc = "allocating",
                            ![p].todo = @ \ {action},
                            ![p].action = action,
                            ![p].read = [freeStake |-> freeStake,
                                         allocations |-> allocations]]
                      /\ UNCHANGED <<hist, last>>
    /\ UNCHANGED <<store, currentEpoch, freeStake, allocations, rules, receipts, txn>>

\* the rest of allocate: the derived id is checked on the contract as it is
\* now, and the transaction is submitted
SubmitAllocate(p, envs) ==
    /\ proc[p].pc = "allocating"
    /\ \E e \in envs :
          LET action == proc[p].action
              call == ManagerCall(action)
              r == AllocateFrom(proc[p].read, Net, call.target, call.amount, e)
          IN  /\ freeStake' = r.net.freeStake
              /\ allocations' = r.net.allocations
              /\ rules' = r.net.rules
              /\ receipts' = r.net.receipts
              /\ proc' = [proc EXCEPT ![p].pc = "update",
                                      ![p].threw = r.threw,
                                      ![p].read = NoRead]
              /\ hist' = [hist EXCEPT
                    ![p].dispatched = (action.id :> r.error) @@ @,
                    ![p].n = @ + 1,
                    ![p].returnedAfterThrow =
                        @ \/ (~r.threw /\ \E id \in DOMAIN hist[p].dispatched :
                                              hist[p].dispatched[id] # "none")]
              /\ last' = [NoCall EXCEPT
                    !.op = "allocate", !.target = call.target,
                    !.amount = call.amount, !.action = action, !.env = e,
                    !.threw = r.threw, !.error = r.error, !.called = r.called]
    /\ UNCHANGED <<store, currentEpoch, txn>>

\* the row is locked by a write of another transaction in progress: the
\* update waits until that transaction ends
Locked(p, id) == \E q \in Procs \ {p} : Active(q) /\ id \in txn[q].writes

ConflictNever(p, id) == FALSE

\* the update cannot be serialized: the row changed after the snapshot, or
\* a concurrent transaction that wrote has committed
Conflict(p, id) == id \in txn[p].changed \/ txn[p].rw

\* models.Action.update({ status }, { where: { id: action.id }, transaction })
\* and updatedActions.concat(updatedAction), in the try or the catch block
UpdateStatus(p) ==
    LET id == proc[p].action.id
        view == UpdateStatusWhereIds(txn[p].view, {id}, StatusAfter(proc[p].threw))
    IN  /\ proc[p].pc = "update"
        /\ ~Locked(p, id)
        /\ ~Conflict(p, id)
        /\ txn' = [txn EXCEPT ![p].view = view, ![p].writes = @ \cup {id}]
        /\ proc' = [proc EXCEPT
              ![p].pc = AfterLoop(proc[p].phase, proc[p].todo),
              ![p].updatedActions = ConcatStatement(@, Returning(view, {id}))]
        /\ UNCHANGED <<store, network, hist>>

\* the transaction is rolled back and executeActions rejects
Rollback(p) ==
    /\ proc' = [proc EXCEPT ![p].pc = "done"]
    /\ txn' = [txn EXCEPT ![p] = NoTxn]
    /\ hist' = [hist EXCEPT ![p].result = "rejected"]
    /\ UNCHANGED <<store, network>>

\* the update fails to serialize; the update of the catch block fails in the
\* aborted transaction, and the error leaves the callback
UpdateFails(p) ==
    /\ proc[p].pc = "update"
    /\ ~Locked(p, proc[p].action.id)
    /\ Conflict(p, proc[p].action.id)
    /\ Rollback(p)

\* the second findAll, after the approved sweep
FindQueued(p) ==
    LET todo == RowSet(QueuedActionsSpecified(txn[p].view, proc[p].actionIDs))
    IN  /\ proc[p].pc = "findQueued"
        /\ ~(txn[p].rw /\ txn[p].writes # {})
        /\ proc' = [proc EXCEPT ![p].pc = AfterLoop(2, todo),
                                ![p].phase = 2, ![p].todo = todo]
        /\ UNCHANGED <<store, network, txn, hist>>

\* the callback returns: COMMIT, then return updatedActions
CommitUnlessFailed(p) ==
    /\ proc[p].pc = "commit"
    /\ actions' = [i \in DOMAIN actions |->
          IF /\ actions[i].id \in txn[p].writes
             /\ \A id \in DOMAIN hist[p].dispatched : hist[p].dispatched[id] = "none"
          THEN [actions[i] EXCEPT !.status =
                  Returning(txn[p].view, {actions[i].id})[1].status]
          ELSE actions[i]]
    /\ txn' = [txn EXCEPT ![p] = NoTxn]
    /\ proc' = [proc EXCEPT ![p].pc = "done"]
    /\ hist' = [hist EXCEPT ![p].result = "resolved",
                            ![p].ret = proc[p].updatedActions]
    /\ UNCHANGED <<resp, network>>

Commit(p) ==
    /\ proc[p].pc = "commit"
    /\ ~(txn[p].rw /\ txn[p].writes # {})
    /\ actions' = [i \in DOMAIN actions |->
          IF actions[i].id \in txn[p].writes
          THEN [actions[i] EXCEPT !.status =
                  Returning(txn[p].view, {actions[i].id})[1].status]
          ELSE actions[i]]
    /\ txn' = [q \in Procs |->
          IF q = p THEN NoTxn
          ELSE IF Active(q)
          THEN [txn[q] EXCEPT !.changed = @ \cup txn[p].writes,
                              !.rw = @ \/ txn[p].writes # {}]
          ELSE txn[q]]
    /\ proc' = [proc EXCEPT ![p].pc = "done"]
    /\ hist' = [hist EXCEPT ![p].result = "resolved",
                            ![p].ret = proc[p].updatedActions]
    /\ UNCHANGED <<resp, network>>

\* a statement of a transaction that lost against a concurrent committed
\* one fails
SerializationFailure(p) ==
    /\ proc[p].pc \in {"findQueued", "commit"}
    /\ txn[p].rw /\ txn[p].writes # {}
    /\ Rollback(p)

\* the caller has the result: the executeActions resolver answers the
\* request with it, the worker drops it
Return(p) ==
    /\ proc[p].pc = "done"
    /\ proc' = [proc EXCEPT ![p] = IdleProc]
    /\ hist' = [hist EXCEPT ![p] = NoHist]
    /\ resp' = IF p = "manual"
               THEN [op |-> "executeActions", ok |-> hist[p].result = "resolved",
                     arg |-> proc[p].actionIDs, out |-> hist[p].ret,
                     missing |-> {}]
               ELSE resp
    /\ UNCHANGED <<actions, network, txn>>

(***************************************************************************)
(* The initial state: an empty queue; an indexer with free stake and one   *)
(* active allocation made in an earlier epoch; no call in progress.        *)
(***************************************************************************)
InitialFreeStake == 30000
InitialAllocatedTokens == 5000

Init ==
    /\ actions = <<>>
    /\ resp = NoResp
    /\ currentEpoch = 1
    /\ freeStake = InitialFreeStake
    /\ allocations = {[id |-> AllocationA, deployment |-> DeploymentOld,
                       allocatedTokens |-> InitialAllocatedTokens,
                       createdAtEpoch |-> 0, state |-> StateActive]}
    /\ rules = [d \in Deployments |-> NoRule]
    /\ receipts = [remembered |-> {}, collected |-> {}]
    /\ last = NoCall
    /\ proc = [p \in Procs |-> IdleProc]
    /\ txn = [p \in Procs |-> NoTxn]
    /\ hist = [p \in Procs |-> NoHist]

(***************************************************************************)
(* The specification of the management operations, one at a time: a        *)
(* resolver runs, and executeActions is called, when no call is in         *)
(* progress; the call then runs step by step to its return.                *)
(***************************************************************************)
MaxActions == 2

ExecInputs == {queuedAllocateAction, queuedUnallocateAction}

\* the collaborators' answers drawn here: the transaction is mined with its
\* event, is refused by the paused contract, or is mined without the event
ExecEnv == [tx : {"receipt", "paused", "noevent"}, collaborator : {"ok"}]

ActionIDBatches == SUBSET (1..MaxActions)

QueueStep ==
    /\ Quiet
    /\ Len(actions) < MaxActions
    /\ \E input \in ExecInputs : QueueActions(<<input>>)

ApproveStep ==
    /\ Quiet
    /\ \E ids \in SUBSET (1..Len(actions)) \ {{}} : ApproveActions(ids)

ExecuteStep ==
    /\ Quiet
    /\ proc["manual"].pc = "idle"
    /\ \E actionIDs \in ActionIDBatches, force \in BOOLEAN :
          ExecuteActions("manual", actionIDs, force)

Next ==
    \/ QueueStep
    \/ ApproveStep
    \/ ExecuteStep
    \/ \E p \in Procs : DispatchAction(p, ExecEnv)
    \/ \E p \in Procs : UpdateStatus(p)
    \/ \E p \in Procs : FindQueued(p)
    \/ \E p \in Procs : Commit(p)
    \/ \E p \in Procs : Return(p)

Spec == Init /\ [][Next]_vars

\* the steps of a call in progress: every statement executeActions awaits
\* completes
CallSteps ==
    \E p \in Procs :
        \/ DispatchAction(p, ExecEnv)
        \/ UpdateStatus(p)
        \/ FindQueued(p)
        \/ Commit(p)
        \/ Return(p)

SpecFair == Init /\ [][Next]_vars /\ WF_vars(CallSteps)

(***************************************************************************)
(* The specification of overlapping calls: the worker's tick and a manual  *)
(* executeActions request run their steps interleaved; the queue is        *)
(* filled and approved while no transaction is in progress.                *)
(***************************************************************************)
NoTransaction == \A p \in Procs : proc[p].pc \in {"idle", "failed", "fetched"}

MaxOverlap == 2

\* every transaction is mined with its event
OverlapEnv == [tx : {"receipt"}, collaborator : {"ok"}]

QueueOverlapStep ==
    /\ NoTransaction
    /\ Len(actions) < MaxOverlap
    /\ \E input \in ExecInputs : QueueActions(<<input>>)

ApproveOverlapStep ==
    /\ NoTransaction
    /\ \E ids \in SUBSET (1..Len(actions)) \ {{}} : ApproveActions(ids)

ManualExecuteStep ==
    /\ proc["manual"].pc = "idle"
    /\ \E actionIDs \in SUBSET (1..MaxOverlap), force \in BOOLEAN :
          ExecuteActions("manual", actionIDs, force)

WorkerFetchCrashes ==
    /\ proc["worker"].pc \in {"idle", "failed"}
    /\ proc' = [proc EXCEPT !["worker"].pc = "crashed"]
    /\ UNCHANGED <<store, network, txn, hist>>

\* the timer has fired and fetchActions has thrown: onError logs a warning,
\* and the tick ends
WorkerFetchFails ==
    /\ proc["worker"].pc \in {"idle", "failed"}
    /\ proc' = [proc EXCEPT !["worker"].pc = "failed"]
    /\ UNCHANGED <<store, network, txn, hist>>

\* timer(60_000).tryMap(() => fetchActions({ status: APPROVED }))
WorkerFetch ==
    /\ proc["worker"].pc \in {"idle", "failed"}
    /\ proc' = [proc EXCEPT
          !["worker"].pc = "fetched",
          !["worker"].actionIDs =
              {a.id : a \in RowSet(FetchActions(actions,
                  [type |-> Undefined, status |-> APPROVED,
                   source |-> Undefined, reason |-> Undefined]))}]
    /\ UNCHANGED <<store, network, txn, hist>>

\* pipe: executeActions(approvedActions.map((action) => action.id), false)
WorkerExecute ==
    /\ proc["worker"].pc = "fetched"
    /\ ExecuteActions("worker", proc["worker"].actionIDs, FALSE)

NextOverlap ==
    \/ QueueOverlapStep
    \/ ApproveOverlapStep
    \/ ManualExecuteStep
    \/ WorkerFetch
    \/ WorkerExecute
    \/ \E p \in Procs : DispatchAction(p, OverlapEnv)
    \/ \E p \in Procs : UpdateStatus(p)
    \/ \E p \in Procs : UpdateFails(p)
    \/ \E p \in Procs : FindQueued(p)
    \/ \E p \in Procs : Commit(p)
    \/ \E p \in Procs : SerializationFailure(p)
    \/ \E p \in Procs : Return(p)

SpecOverlap == Init /\ [][NextOverlap]_vars

(***************************************************************************)
(* The AllocationManager specification: allocate, unallocate and           *)
(* reallocate are called directly, with every answer of the collaborators, *)
(* while the epoch advances.                                               *)
(***************************************************************************)
MaxEpoch == 2
MaxAllocations == 2

\* the collaborators' answers drawn here: all is well, the transaction is
\* refused or mined without its event, or a collaborator called before the
\* transaction fails
CallEnv ==
    [tx : {"receipt", "paused", "noevent"}, collaborator : {"ok"}]
    \cup [tx : {"receipt"}, collaborator : {"throwsBefore"}]

AllocationUnknown == "0x0000000000000000000000000000000000000000"

CallAmounts == {-1, 0, 10000}

CallDeployments == {DeploymentC, DeploymentOld}

\* the call is made: the network is what the call leaves, and the call is
\* recorded with its outcome
Called(op, target, amount, e, r) ==
    /\ freeStake' = r.net.freeStake
    /\ allocations' = r.net.allocations
    /\ rules' = r.net.rules
    /\ receipts' = r.net.receipts
    /\ last' = [NoCall EXCEPT !.op = op, !.target = target, !.amount = amount,
                               !.env = e, !.threw = r.threw, !.error = r.error,
                               !.called = r.called, !.rewards = r.rewards]
    /\ UNCHANGED <<store, currentEpoch, calls>>

AllocateCall ==
    /\ Cardinality(allocations) < MaxAllocations
    /\ \E deployment \in CallDeployments, e \in CallEnv, amount \in CallAmounts :
        Called("allocate", deployment, amount, e, Allocate(Net, deployment, amount, e))

UnallocateCall ==
    \E allocationID \in {a.id : a \in allocations} \cup {AllocationUnknown},
       e \in CallEnv :
        Called("unallocate", allocationID, 0, e,
               Unallocate(Net, allocationID, Undefined, JsFalse, e))

ReallocateCall ==
    /\ Cardinality(allocations) < MaxAllocations
    /\ \E a \in allocations, e \in CallEnv :
        \E amount \in CallAmounts \cup {freeStake + a.allocatedTokens,
                                        freeStake + a.allocatedTokens + 1} :
            Called("reallocate", a.id, amount, e,
                   Reallocate(Net, a.id, Undefined, amount, JsFalse, e))

\* epochManager.currentEpoch() grows
EpochAdvances ==
    /\ currentEpoch < MaxEpoch
    /\ currentEpoch' = currentEpoch + 1
    /\ UNCHANGED <<store, freeStake, allocations, rules, receipts, last, calls>>

NextAllocation ==
    \/ AllocateCall
    \/ UnallocateCall
    \/ ReallocateCall
    \/ EpochAdvances

SpecAllocation == Init /\ [][NextAllocation]_vars

(***************************************************************************)
(* The close specification: unallocate and reallocate are called directly  *)
(* with receipts that hold all, some or none of the events, with a         *)
(* network subgraph that may lag behind the chain, while the epoch         *)
(* advances.                                                               *)
(***************************************************************************)
CloseEnv ==
    [tx : {"receipt", "noevent", "paused"} \cup PartialReceipts,
     collaborator : {"ok"}, subgraph : {"synced"}]
    \cup [tx : {"receipt"}, collaborator : {"ok", "throwsBefore", "throwsPOI"},
          subgraph : {"synced", "lagging"}]

\* more than the indexer's stake, free and allocated
BeyondStake == InitialFreeStake + InitialAllocatedTokens + 1

UnallocateAnyCall ==
    \E allocationID \in {a.id : a \in allocations} \cup {AllocationUnknown},
       e \in CloseEnv :
        Called("unallocate", allocationID, 0, e,
               Unallocate(Net, allocationID, Undefined, JsFalse, e))

ReallocateAnyCall ==
    /\ Cardinality(allocations) < MaxAllocations
    /\ \E allocationID \in {a.id : a \in allocations} \cup {AllocationUnknown},
          e \in CloseEnv, amount \in CallAmounts \cup {BeyondStake} :
            Called("reallocate", allocationID, amount, e,
                   ReallocateFrom(SubgraphView(Net, e), Net, allocationID,
                                  Undefined, amount, JsFalse, e))

NextClose ==
    \/ UnallocateAnyCall
    \/ ReallocateAnyCall
    \/ EpochAdvances

SpecClose == Init /\ [][NextClose]_vars

(***************************************************************************)
(* The dispatch specification: takeAction is called directly with stored   *)
(* actions of every type, and of a type it has no branch for, with every   *)
(* answer of the collaborators, while the epoch advances.                  *)
(***************************************************************************)
SomePOI == "0x0000000000000000000000000000000000000000000000000000000000000000"
Unsupported == "unsupported"

\* the inputs of the actions dispatched: the four queued actions, an
\* unallocate and a reallocate with a POI and without force, and an action
\* whose type is none of the four
DispatchInputs ==
    {queuedAllocateAction, queuedUnallocateAction, queuedReallocateAction,
     queuedCollectAction,
     [queuedUnallocateAction EXCEPT !.poi = SomePOI, !.force = Undefined],
     [queuedReallocateAction EXCEPT !.poi = SomePOI, !.force = JsTrue],
     [queuedCollectAction EXCEPT !.type = Unsupported]}

\* takeAction(action): the network is what the call leaves; the call
\* takeAction made is recorded with its arguments and its outcome
TakeActionCall ==
    /\ Cardinality(allocations) < MaxAllocations
    /\ \E input \in DispatchInputs, e \in CallEnv :
          LET action == ToRow(input, 1)
              call == ManagerCall(action)
              r == TakeAction(action, Net, e)
          IN  /\ freeStake' = r.net.freeStake
              /\ allocations' = r.net.allocations
              /\ rules' = r.net.rules
              /\ receipts' = r.net.receipts
              /\ last' = [op |-> call.op, target |-> call.target,
                          amount |-> call.amount, poi |-> call.poi,
                          force |-> call.force, action |-> action, env |-> e,
                          threw |-> r.threw, error |-> r.error,
                          called |-> r.called, rewards |-> r.rewards]
    /\ UNCHANGED <<store, currentEpoch, calls>>

NextDispatch ==
    \/ TakeActionCall
    \/ EpochAdvances

SpecDispatch == Init /\ [][NextDispatch]_vars

(***************************************************************************)
(* The batch specification: ALLOCATE actions for two deployments are       *)
(* stored APPROVED and executeActions sweeps them, one call at a time, on  *)
(* a chain that applies every transaction that is mined.                   *)
(***************************************************************************)
MaxBatch == 2

BatchInputs ==
    {[queuedAllocateAction EXCEPT !.status = APPROVED, !.deploymentID = d,
                                  !.amount = amount] :
        d \in {DeploymentC, DeploymentD}, amount \in {"10000", "27000"}}

QueueBatchStep ==
    /\ Quiet
    /\ Len(actions) < MaxBatch
    /\ \E input \in BatchInputs : QueueActions(<<input>>)

ExecuteBatchStep ==
    /\ Quiet
    /\ ExecuteActions("manual", {}, FALSE)

NextBatch ==
    \/ QueueBatchStep
    \/ ExecuteBatchStep
    \/ BeginAllocate("manual")
    \/ SubmitAllocate("manual", ExecEnv)
    \/ UpdateStatus("manual")
    \/ FindQueued("manual")
    \/ Commit("manual")
    \/ Return("manual")

SpecBatch == Init /\ [][NextBatch]_vars

(***************************************************************************)
(* The effect specification: approved ALLOCATE, UNALLOCATE and REALLOCATE  *)
(* actions are swept, one call at a time, while a collaborator called      *)
(* after the transaction was mined (the receipt collector, the indexing    *)
(* rules table) may throw.                                                 *)
(***************************************************************************)
MaxEffects == 2

EffectInputs ==
    {[input EXCEPT !.status = APPROVED] :
        input \in {queuedAllocateAction, queuedUnallocateAction,
                   queuedReallocateAction}}

EffectEnv == [tx : {"receipt", "paused"}, collaborator : {"ok", "throwsAfter"}]

QueueEffectStep ==
    /\ Quiet
    /\ Len(actions) < MaxEffects
    /\ \E input \in EffectInputs : QueueActions(<<input>>)

NextEffect ==
    \/ QueueEffectStep
    \/ ExecuteBatchStep
    \/ DispatchAction("manual", EffectEnv)
    \/ UpdateStatus("manual")
    \/ FindQueued("manual")
    \/ Commit("manual")
    \/ Return("manual")

SpecEffect == Init /\ [][NextEffect]_vars

(***************************************************************************)
(* The capacity specification: ALLOCATE actions for two deployments are    *)
(* stored APPROVED, and the worker's tick and a manual executeActions      *)
(* request sweep them in overlapping calls; the steps of allocate          *)
(* interleave, and the chain applies every transaction that is mined.      *)
(* Both calls sweep the same rows, so a call that lost against a committed *)
(* one fails at its status update.                                         *)
(***************************************************************************)
MaxCapacity == 2

CapacityInputs ==
    {[queuedAllocateAction EXCEPT !.status = APPROVED, !.deploymentID = d,
                                  !.amount = "27000"] : d \in {DeploymentC, DeploymentD}}

QueueCapacityStep ==
    /\ NoTransaction
    /\ Len(actions) < MaxCapacity
    /\ \E input \in CapacityInputs : QueueActions(<<input>>)

ManualSweepStep ==
    /\ proc["manual"].pc = "idle"
    /\ ExecuteActions("manual", {}, FALSE)

NextCapacity ==
    \/ QueueCapacityStep
    \/ ManualSweepStep
    \/ WorkerFetch
    \/ WorkerExecute
    \/ \E p \in Procs : BeginAllocate(p)
    \/ \E p \in Procs : SubmitAllocate(p, OverlapEnv)
    \/ \E p \in Procs : UpdateStatus(p)
    \/ \E p \in Procs : UpdateFails(p)
    \/ \E p \in Procs : FindQueued(p)
    \/ \E p \in Procs : Commit(p)
    \/ \E p \in Procs : Return(p)

SpecCapacity == Init /\ [][NextCapacity]_vars

(***************************************************************************)
(* The allocate specification: allocate is called directly for every       *)
(* deployment, with amounts up to one more than the free stake and with    *)
(* every result of the Transaction Manager, while the epoch advances.      *)
(***************************************************************************)
AllocateEnv ==
    [tx : TxResults, collaborator : {"ok"}]
    \cup [tx : {"receipt"}, collaborator : {"throwsBefore", "throwsAfter"}]

AllocateAnyCall ==
    /\ Cardinality(allocations) < MaxAllocations
    /\ \E deployment \in Deployments, e \in AllocateEnv :
        \E amount \in CallAmounts \cup {freeStake, freeStake + 1} :
            Called("allocate", deployment, amount, e,
                   Allocate(Net, deployment, amount, e))

NextAllocate ==
    \/ AllocateAnyCall
    \/ EpochAdvances

SpecAllocate == Init /\ [][NextAllocate]_vars

(***************************************************************************)
(* The worker specification: the worker polls while actions are queued     *)
(* and approved between its transactions.  The timer fires again and       *)
(* again, and every step the worker awaits completes.                      *)
(***************************************************************************)
MaxPolled == 1

WorkerEnv == [tx : {"receipt", "paused"}, collaborator : {"ok"}]

QueuePolledStep ==
    /\ NoTransaction
    /\ Len(actions) < MaxPolled
    /\ \E input \in ExecInputs : QueueActions(<<input>>)

\* the steps of the worker's tick and of the executeActions call it makes
WorkerRuns ==
    \/ WorkerFetch
    \/ WorkerExecute
    \/ DispatchAction("worker", WorkerEnv)
    \/ UpdateStatus("worker")
    \/ FindQueued("worker")
    \/ Commit("worker")
    \/ Return("worker")

NextWorker ==
    \/ QueuePolledStep
    \/ ApproveOverlapStep
    \/ WorkerFetchFails
    \/ WorkerRuns

SpecWorker == Init /\ [][NextWorker]_vars /\ WF_vars(WorkerRuns)

(***************************************************************************)
(* The cancel specification: the worker polls and executes while actions   *)
(* are queued and approved between its transactions and canceled at any    *)
(* time, also between the steps of its transaction.                        *)
(***************************************************************************)
MaxCanceled == 1

QueueCanceledStep ==
    /\ NoTransaction
    /\ Len(actions) < MaxCanceled
    /\ \E input \in ExecInputs : QueueActions(<<input>>)

CancelAnyStep ==
    \E ids \in SUBSET (1..Len(actions)) \ {{}} : CancelActions(ids)

\* the steps of the worker's tick and of the executeActions call it makes
WorkerTicks ==
    \/ WorkerFetch
    \/ WorkerExecute
    \/ DispatchAction("worker", OverlapEnv)
    \/ UpdateStatus("worker")
    \/ UpdateFails("worker")
    \/ FindQueued("worker")
    \/ Commit("worker")
    \/ Return("worker")

NextCancel ==
    \/ QueueCanceledStep
    \/ ApproveOverlapStep
    \/ CancelAnyStep
    \/ WorkerFetchFails
    \/ WorkerTicks

SpecCancel == Init /\ [][NextCancel]_vars

(***************************************************************************)
(* The same with a longer queue, and with the timer firing again and       *)
(* again and every step the worker awaits completing.                      *)
(***************************************************************************)
MaxTicked == 2

QueueTickedStep ==
    /\ NoTransaction
    /\ Len(actions) < MaxTicked
    /\ \E input \in ExecInputs : QueueActions(<<input>>)

NextCancelLive ==
    \/ QueueTickedStep
    \/ ApproveOverlapStep
    \/ CancelAnyStep
    \/ WorkerFetchFails
    \/ WorkerTicks

SpecCancelLive == Init /\ [][NextCancelLive]_vars /\ WF_vars(WorkerTicks)

(***************************************************************************)
(* The queue specification: the queueActions mutation and the CLI queue    *)
(* command on a table of at most MaxStored rows.                           *)
(***************************************************************************)
InitQueue == Init

QueueActionsStep ==
    \E inputs \in ApiBatches :
        /\ Len(actions) + Len(inputs) <= MaxStored
        /\ QueueActions(inputs)

QueueCommandStep ==
    \E type \in ActionType, target \in CliTargets, param1 \in CliParams :
        /\ Len(actions) < MaxStored
        /\ QueueCommand(type, GenericParams(target, param1, Undefined, Undefined),
                        Undefined, Undefined)

NextQueue ==
    \/ QueueActionsStep
    \/ QueueCommandStep

SpecQueue == InitQueue /\ [][NextQueue]_vars

(***************************************************************************)
(* The fetch specification: the actions query over the tables that         *)
(* queueActions, approveActions and cancelActions build.                   *)
(***************************************************************************)
FetchBatches ==
    {<<a>> : a \in {queuedAllocateAction, queuedCollectAction,
                    MkInput(ALLOCATE, APPROVED, DeploymentC, Undefined, "10000",
                            Undefined, JsFalse, DefaultSource, DefaultReason)}}

QueueForFetchStep ==
    \E inputs \in FetchBatches :
        /\ Len(actions) + Len(inputs) <= MaxRows
        /\ QueueActions(inputs)

ActionsStep == \E filter \in Filters : Actions(filter)

CancelActionsStep == \E ids \in IdBatches : CancelActions(ids)

ApproveActionsStep == \E ids \in IdBatches : ApproveActions(ids)

NextFetch ==
    \/ QueueForFetchStep
    \/ ActionsStep
    \/ CancelActionsStep
    \/ ApproveActionsStep

SpecFetch == InitQueue /\ [][NextFetch]_vars

(***************************************************************************)
(* The resolver specification: queueActions, the actions query,            *)
(* approveActions, cancelActions and updateAction on a table of at most    *)
(* MaxRows rows.                                                           *)
(***************************************************************************)
\* the actions an updateAction request carries: a new amount, and a new
\* status
UpdateInputs ==
    {MkInput(ALLOCATE, QUEUED, DeploymentC, Undefined, "27000",
             Undefined, JsFalse, Agent, Rule),
     MkInput(ALLOCATE, SUCCESS, DeploymentC, Undefined, "10000",
             Undefined, JsFalse, Agent, Rule)}

UpdateActionStep ==
    \E input \in UpdateInputs, id \in 1..(MaxRows + 1) :
        UpdateAction(ToRow(input, id))

FetchByStatusStep ==
    \E status \in {APPROVED, CANCELED} :
        Actions([type |-> Undefined, status |-> status,
                 source |-> Undefined, reason |-> Undefined])

NextUpdate ==
    \/ QueueForFetchStep
    \/ FetchByStatusStep
    \/ ApproveActionsStep
    \/ CancelActionsStep
    \/ UpdateActionStep

SpecUpdate == InitQueue /\ [][NextUpdate]_vars

(***************************************************************************)
(* Claims about executeActions.                                            *)
(***************************************************************************)
Done(p) == proc[p].pc = "done"

\* the ids takeAction was called with in this call
Dispatched(p) == DOMAIN hist[p].dispatched

\* no action was dispatched twice in this call
EachOnce(p) == hist[p].n = Cardinality(Dispatched(p))

StatusOf(table, id) == table[CHOOSE i \in DOMAIN table : table[i].id = id].status

\* the status an action must have after its dispatch
Expected(error) == IF error = "none" THEN SUCCESS ELSE FAILED

Marked(p, id) ==
    /\ id \in Dispatched(p)
    /\ StatusOf(actions, id) = Expected(hist[p].dispatched[id])

\* C1: executeActions(ids, false) dispatches every action that is APPROVED
\* when the call selects its work, in ids or not, exactly once, and leaves it
\* SUCCESS if the dispatch returned and FAILED if it threw.
C1_ApprovedSweep ==
    \A p \in Procs : (Done(p) /\ ~proc[p].force) =>
        /\ EachOnce(p)
        /\ \A i \in DOMAIN hist[p].before :
              hist[p].before[i].status = APPROVED => Marked(p, hist[p].before[i].id)

\* two APPROVED actions, one of them not in ids, were dispatched: one
\* returned and one threw
C1_Witness ==
    /\ Done("manual") /\ ~proc["manual"].force
    /\ \E i, j \in DOMAIN hist["manual"].before :
          /\ hist["manual"].before[i].status = APPROVED
          /\ hist["manual"].before[j].status = APPROVED
          /\ i \notin proc["manual"].actionIDs
          /\ i \in Dispatched("manual") /\ j \in Dispatched("manual")
          /\ hist["manual"].dispatched[i] = "none"
          /\ hist["manual"].dispatched[j] # "none"

\* C2: in its second phase executeActions dispatches and marks every QUEUED
\* action whose id is in ids, after the approved sweep, and dispatches or
\* changes no QUEUED action whose id is not in ids.
C2_QueuedSpecified ==
    \A p \in Procs :
        /\ proc[p].phase = 1 =>
              \A id \in Dispatched(p) : StatusOf(hist[p].before, id) = APPROVED
        /\ Done(p) =>
              /\ EachOnce(p)
              /\ \A i \in DOMAIN hist[p].before :
                    hist[p].before[i].status = QUEUED =>
                        IF hist[p].before[i].id \in proc[p].actionIDs
                        THEN Marked(p, hist[p].before[i].id)
                        ELSE /\ hist[p].before[i].id \notin Dispatched(p)
                             /\ actions[i] = hist[p].before[i]

\* of two QUEUED actions the one in ids was dispatched after an APPROVED
\* one, the other was left alone
C2_Witness ==
    /\ Done("manual")
    /\ proc["manual"].actionIDs = {2}
    /\ Len(hist["manual"].before) = 2
    /\ hist["manual"].before[1].status = QUEUED
    /\ hist["manual"].before[2].status = QUEUED
    /\ Dispatched("manual") = {2}
    /\ actions[1].status = QUEUED
    /\ actions[2].status = SUCCESS

\* C3: executeActions returns the full list of the records it updated,
\* exactly one record per dispatched action.
C3_ReturnsUpdated ==
    \A p \in Procs : (Done(p) /\ hist[p].result = "resolved") =>
        /\ Len(hist[p].ret) = Cardinality(Dispatched(p))
        /\ \A id \in Dispatched(p) :
              \E k \in DOMAIN hist[p].ret :
                  /\ hist[p].ret[k].id = id
                  /\ hist[p].ret[k].status = StatusOf(actions, id)

\* the action is selected by the call: APPROVED in a call without force, or
\* QUEUED with its id in ids
Selected(p, row) ==
    \/ ~proc[p].force /\ row.status = APPROVED
    \/ row.status = QUEUED /\ row.id \in proc[p].actionIDs

\* C4: a dispatch that throws never prevents the other selected actions of
\* the call from being dispatched; in both phases the throwing action ends
\* FAILED and every action whose dispatch did not throw ends SUCCESS.
C4_ThrowDoesNotStopOthers ==
    \A p \in Procs :
        (Done(p) /\ \E id \in Dispatched(p) : hist[p].dispatched[id] # "none") =>
            /\ hist[p].result = "resolved"
            /\ \A i \in DOMAIN hist[p].before :
                  Selected(p, hist[p].before[i]) => Marked(p, hist[p].before[i].id)

\* an APPROVED and a QUEUED action were dispatched, and a dispatch returned
\* after an earlier one of the call had thrown
C4_Witness ==
    /\ Done("manual")
    /\ hist["manual"].returnedAfterThrow
    /\ \E i, j \in Dispatched("manual") :
          /\ StatusOf(hist["manual"].before, i) = APPROVED
          /\ StatusOf(hist["manual"].before, j) = QUEUED
          /\ StatusOf(actions, i) = FAILED
          /\ StatusOf(actions, j) = SUCCESS

\* C5: two overlapping executeActions calls never both dispatch the same
\* action.
C5_NoDoubleDispatch ==
    \A p, q \in Procs :
        (p # q /\ Active(p) /\ Active(q)) => Dispatched(p) \cap Dispatched(q) = {}

\* C6: executeActions(ids, true) never dispatches and never changes an
\* APPROVED action, in ids or not; it dispatches only QUEUED actions whose
\* id is in ids.
C6_ForceSkipsApproved ==
    \A p \in Procs : proc[p].force =>
        /\ \A id \in Dispatched(p) :
              /\ StatusOf(hist[p].before, id) = QUEUED
              /\ id \in proc[p].actionIDs
        /\ \A i \in DOMAIN hist[p].before :
              hist[p].before[i].status = APPROVED =>
                  /\ actions[i] = hist[p].before[i]
                  /\ txn[p].view = <<>> \/ txn[p].view[i] = hist[p].before[i]

\* a call with force has ended: it dispatched the QUEUED action of ids and
\* not the APPROVED action of ids
C6_Witness ==
    /\ Done("manual") /\ proc["manual"].force
    /\ proc["manual"].actionIDs = {1, 2}
    /\ Len(hist["manual"].before) = 2
    /\ hist["manual"].before[1].status = APPROVED
    /\ hist["manual"].before[2].status = QUEUED
    /\ Dispatched("manual") = {2}
    /\ actions[1].status = APPROVED
    /\ actions[2].status \in {SUCCESS, FAILED}

\* the errors of a chain call that failed: the paused and unauthorized
\* results, the missing event, and the failed preconditions
ChainFailures ==
    {"paused", "unauthorized", "IE014", "IE013", "active allocation exists",
     "negative amount", "zero amount", "already exists onchain",
     "allocation not found", "created this epoch", "already closed",
     "no active allocation"}

\* C7: when an action's chain call fails, the action's FAILED status is
\* committed, and the failure does not roll back the status writes of the
\* other actions of the call.
C7_FailureCommitted ==
    \A p \in Procs : Done(p) =>
        /\ hist[p].result = "resolved"
        /\ \A id \in Dispatched(p) :
              /\ hist[p].dispatched[id] \in ChainFailures =>
                    StatusOf(actions, id) = FAILED
              /\ hist[p].dispatched[id] = "none" => StatusOf(actions, id) = SUCCESS
        /\ \A i \in DOMAIN hist[p].before :
              hist[p].before[i].id \notin Dispatched(p) =>
                  actions[i] = hist[p].before[i]

\* the call has committed after the paused contract refused one action's
\* transaction and another action's transaction was mined
C7_Witness ==
    /\ Done("manual")
    /\ hist["manual"].result = "resolved"
    /\ \E i, j \in Dispatched("manual") :
          /\ hist["manual"].dispatched[i] = "paused"
          /\ hist["manual"].dispatched[j] = "none"
          /\ StatusOf(actions, i) = FAILED
          /\ StatusOf(actions, j) = SUCCESS

(***************************************************************************)
(* Claims about the queue and the actions query.                           *)
(***************************************************************************)
QueueOps == {"queueActions", "queueCommand"}

IdsStrictlyIncreasing(table) ==
    \A i, j \in DOMAIN table : i < j => table[i].id < table[j].id

\* the rows of `out` are rows of the table
Stored(out) == \A k \in DOMAIN out : \E i \in DOMAIN actions : actions[i] = out[k]

RequiredInputFields(type) ==
    IF type = ALLOCATE THEN {"deploymentID", "amount"}
    ELSE IF type = REALLOCATE THEN {"allocationID", "amount"}
    ELSE {"allocationID"}

InputMissing(input) ==
    {f \in RequiredInputFields(input.type) : input[f] \in {Undefined, Null}}

\* C9: queue rejects any action that lacks a field required for its type,
\* the rejection lists exactly the missing required fields, and no action
\* of a rejected request is inserted into the store.
C9_QueueRejectsIncomplete ==
    /\ \A i \in DOMAIN actions : InputMissing(actions[i]) = {}
    /\ resp.op = "queueActions" =>
          ((\E k \in DOMAIN resp.arg : InputMissing(resp.arg[k]) # {}) => ~resp.ok)
    /\ resp.op = "queueCommand" =>
          /\ resp.ok <=> MissingFields(resp.arg[2], RequiredFields(resp.arg[1])) = {}
          /\ resp.missing = {f \in {"target", "param1"} :
                                /\ resp.arg[2][f] = Undefined
                                /\ f = "param1" => resp.arg[1] \in {ALLOCATE, REALLOCATE}}

\* a row agrees with the filter on every field the filter has
Matches(row, filter) ==
    /\ filter.type = Undefined \/ row.type = filter.type
    /\ filter.status = Undefined \/ row.status = filter.status
    /\ filter.source = Undefined \/ row.source = filter.source
    /\ filter.reason = Undefined \/ row.reason = filter.reason

\* C10: fetch(filter) returns exactly the stored actions that equal the
\* filter on every field present in it among type, status, source, reason;
\* absent fields do not constrain the result; fetch changes no stored action.
C10_FetchExact ==
    [][(resp'.op = "actions" /\ resp' # resp) =>
         /\ actions' = actions
         /\ \A i \in DOMAIN actions :
               Matches(actions[i], resp'.arg)
                 <=> \E k \in DOMAIN resp'.out : resp'.out[k] = actions[i]
         /\ \A k \in DOMAIN resp'.out :
               \E i \in DOMAIN actions : actions[i] = resp'.out[k]
         /\ \A k, l \in DOMAIN resp'.out :
               k # l => resp'.out[k].id # resp'.out[l].id]_vars

\* a filter with a present and an absent field has selected one of two rows
C10_Witness ==
    /\ resp.op = "actions"
    /\ resp.arg.status = CANCELED
    /\ resp.arg.source = Undefined
    /\ Len(actions) = 2
    /\ Len(resp.out) = 1
    /\ resp.out[1].id = 2

(***************************************************************************)
(* Claims about approveActions, cancelActions and updateAction.            *)
(***************************************************************************)
StatusFilter(status) ==
    [type |-> Undefined, status |-> status, source |-> Undefined,
     reason |-> Undefined]

StoredIds(table) == {table[i].id : i \in DOMAIN table}

\* the step is the answer to a request of this resolver
Answers(op) == resp'.op = op /\ resp' # resp

\* the step changes the status, and nothing else, of the rows with an id in
\* ids, and changes no other row
SetsStatusOf(ids, status) ==
    /\ DOMAIN actions' = DOMAIN actions
    /\ \A i \in DOMAIN actions :
          actions'[i] = IF actions[i].id \in ids
                        THEN [actions[i] EXCEPT !.status = status]
                        ELSE actions[i]

\* C11: approve(ids) sets status APPROVED on every stored action whose id is
\* in ids and on no other action; a fetch({status: APPROVED}) right after it
\* includes those actions and no action that was neither approved before
\* nor named in ids.
C11_ApproveSetsApproved ==
    [][Answers("approveActions") =>
         /\ SetsStatusOf(resp'.arg, APPROVED)
         /\ LET fetched == FetchActions(actions', StatusFilter(APPROVED))
            IN  /\ \A id \in StoredIds(actions) \cap resp'.arg :
                      \E k \in DOMAIN fetched : fetched[k].id = id
                /\ \A k \in DOMAIN fetched :
                      \/ fetched[k].id \in resp'.arg
                      \/ StatusOf(actions, fetched[k].id) = APPROVED]_vars

\* approve([2]) has approved the second of two actions and not the first
C11_Witness ==
    /\ resp.op = "approveActions" /\ resp.ok
    /\ resp.arg = {2}
    /\ Len(actions) = 2
    /\ actions[1].status = QUEUED
    /\ actions[2].status = APPROVED

\* C12: cancel changes a status only from QUEUED or APPROVED to CANCELED,
\* and no approve call changes the status of a CANCELED action.
C12_CancelOnlyForward ==
    [][/\ Answers("cancelActions") =>
            \A i \in DOMAIN actions :
                actions'[i].status # actions[i].status =>
                    actions[i].status \in {QUEUED, APPROVED}
       /\ Answers("approveActions") =>
            \A i \in DOMAIN actions :
                actions[i].status = CANCELED => actions'[i].status = CANCELED]_vars

\* C13: cancel(ids) sets status CANCELED on the actions with the given ids,
\* leaves every other field of them and every other action unchanged, and a
\* following fetch({status: CANCELED}) returns all of them.
C13_CancelFrame ==
    [][Answers("cancelActions") =>
         /\ SetsStatusOf(resp'.arg, CANCELED)
         /\ LET fetched == FetchActions(actions', StatusFilter(CANCELED))
            IN  \A i \in DOMAIN actions :
                   actions[i].id \in resp'.arg =>
                      \E k \in DOMAIN fetched :
                          fetched[k] = [actions[i] EXCEPT !.status = CANCELED]]_vars

\* cancel([1, 2]) has canceled two actions of different types
C13_Witness ==
    /\ resp.op = "cancelActions" /\ resp.ok
    /\ resp.arg = {1, 2}
    /\ Len(actions) = 2
    /\ actions[1].type # actions[2].type
    /\ actions[1].status = CANCELED
    /\ actions[2].status = CANCELED

\* C14: approve(ids) and cancel(ids) fail when no stored action has an id in
\* ids, update(action) fails unless exactly one stored action has the
\* action's id, and a failing request leaves the store unchanged.
C14_ZeroRowsFail ==
    [][/\ (Answers("approveActions") \/ Answers("cancelActions")) =>
            (StoredIds(actions) \cap resp'.arg = {} =>
                ~resp'.ok /\ actions' = actions)
       /\ Answers("updateAction") =>
            (Cardinality({i \in DOMAIN actions : actions[i].id = resp'.arg.id}) # 1 =>
                ~resp'.ok /\ actions' = actions)
       /\ (resp' # resp /\ ~resp'.ok) => actions' = actions]_vars

\* updateAction for an id that no stored action has was refused
C14_Witness ==
    /\ resp.op = "updateAction" /\ ~resp.ok
    /\ Len(actions) = 2
    /\ resp.arg.id = 3
    /\ resp.arg.status = SUCCESS
    /\ \A i \in DOMAIN actions : actions[i].status # SUCCESS

\* C15: approve or cancel with ids of which some are not in the store is
\* rejected as a whole, and no action changes status.
C15_PartialIdsRejected ==
    [][(Answers("approveActions") \/ Answers("cancelActions")) =>
          (~(resp'.arg \subseteq StoredIds(actions)) =>
              ~resp'.ok /\ actions' = actions)]_vars

\* C16: an action's status changes only through approve, cancel or execute,
\* and no action is ever removed from the store.
C16_StatusOnlyByTransitions ==
    [][/\ StoredIds(actions) \subseteq StoredIds(actions')
       /\ \A i \in DOMAIN actions :
             (i \in DOMAIN actions' /\ actions'[i].status # actions[i].status) =>
                 \/ resp'.op \in {"approveActions", "cancelActions"} /\ resp' # resp
                 \/ \E p \in Procs : proc[p].pc = "commit" /\ proc'[p].pc = "done"]_vars

(***************************************************************************)
(* Claims about the AllocationManager.                                     *)
(***************************************************************************)
\* the step is a direct call of this operation
Calls(op) == last'.op = op /\ last' # last

Made(call) == \E k \in DOMAIN last'.called : last'.called[k] = call

StakingCalls ==
    {"epochManager.currentEpoch", "staking.getIndexerCapacity",
     "staking.getAllocationState", "executeTransaction"}

ReceiptCollectorCalls ==
    {"receiptCollector.rememberAllocations", "receiptCollector.collectReceipts"}

\* C17: allocate rejects every call with amount <= 0 and every call for a
\* deployment that has an Active allocation, and then makes no call on the
\* staking contract, the Subgraph Manager or the Receipt Collector and
\* changes no Indexing Rule.
C17_AllocateRejectsEarly ==
    [][(/\ Calls("allocate")
        /\ \/ last'.amount <= 0
           \/ \E a \in allocations :
                 a.state = StateActive /\ a.deployment = last'.target) =>
          /\ last'.threw
          /\ \A call \in StakingCalls \cup ReceiptCollectorCalls
                         \cup {"subgraphManager.ensure", "IndexingRule.upsert"} :
                ~Made(call)
          /\ UNCHANGED <<freeStake, allocations, rules, receipts>>]_vars

\* allocate was refused for the deployment the indexer has an active
\* allocation on, after the allocations query and nothing else
C17_Witness ==
    /\ last.op = "allocate"
    /\ last.target = DeploymentOld
    /\ last.amount = 10000
    /\ last.error = "active allocation exists"
    /\ last.called = <<"networkMonitor.allocations">>

\* C18: unallocate rejects every allocation whose createdAtEpoch is the
\* current epoch, and then submits no transaction, collects no receipts and
\* leaves the Indexing Rules unchanged.
C18_UnallocateSameEpoch ==
    [][(/\ Calls("unallocate")
        /\ \E a \in allocations :
              a.id = last'.target /\ a.createdAtEpoch = currentEpoch) =>
          /\ last'.threw
          /\ ~Made("executeTransaction")
          /\ ~Made("receiptCollector.collectReceipts")
          /\ ~Made("IndexingRule.upsert")
          /\ UNCHANGED <<freeStake, allocations, rules, receipts>>]_vars

\* unallocate was refused for the allocation made in the current epoch
C18_Witness ==
    /\ last.op = "unallocate"
    /\ last.error = "created this epoch"
    /\ \E a \in allocations :
          /\ a.id = last.target
          /\ a.state = StateActive
          /\ a.createdAtEpoch = currentEpoch
          /\ a.deployment = DeploymentC

\* C19: for reallocate of an active allocation with tokens T, free stake F
\* and all other preconditions satisfied, the capacity check passes iff the
\* amount A satisfies A <= F + T; when A > F + T no transaction is
\* submitted.
C19_ReallocateCapacity ==
    [][\A a \in allocations :
          (/\ Calls("reallocate")
           /\ a.id = last'.target
           /\ a.state = StateActive
           /\ a.createdAtEpoch # currentEpoch
           /\ last'.amount > 0
           /\ last'.env.collaborator # "throwsBefore") =>
              /\ Made("staking.getIndexerCapacity")
              /\ last'.error # "IE013" <=> last'.amount <= freeStake + a.allocatedTokens
              /\ last'.amount > freeStake + a.allocatedTokens =>
                    /\ ~Made("executeTransaction")
                    /\ UNCHANGED <<freeStake, allocations, rules, receipts>>]_vars

\* reallocate of the whole free stake and the allocation's tokens went
\* through
C19_Witness ==
    /\ last.op = "reallocate"
    /\ last.target = AllocationA
    /\ last.amount = InitialFreeStake + InitialAllocatedTokens
    /\ ~last.threw
    /\ freeStake = 0

(***************************************************************************)
(* Claims about the IndexerWorker.                                         *)
(***************************************************************************)
Polling == proc["worker"].pc \in {"idle", "failed"}

\* C20: the worker never stops polling: a tick whose fetch fails calls no
\* executeActions and changes no action, and later ticks still run and
\* still execute the approved work.
C20_WorkerKeepsPolling ==
    /\ [][(proc'["worker"].pc = "failed" /\ proc["worker"].pc # "failed") =>
            /\ actions' = actions
            /\ UNCHANGED <<network, txn, hist>>]_vars
    /\ []<>Polling
    /\ \A id \in 1..MaxPolled :
          (/\ proc["worker"].pc = "failed"
           /\ id \in StoredIds(actions)
           /\ StatusOf(actions, id) = APPROVED) ~> (id \in Dispatched("worker"))

\* a tick has failed while an approved action waits
C20_Witness ==
    /\ proc["worker"].pc = "failed"
    /\ Len(actions) = 1
    /\ actions[1].status = APPROVED

(***************************************************************************)
(* Claims about the order of the dispatches of one call.                   *)
(***************************************************************************)
\* the dispatched actions whose status the transaction has not written yet
Unwritten(p) == Dispatched(p) \ txn[p].writes

\* C21: within one executeActions call the actions are processed strictly
\* one after another: a dispatch starts only when every earlier dispatch
\* has finished and its SUCCESS or FAILED status has been written, and every
\* action of the approved sweep is processed before any action of the
\* second phase.
C21_StrictlySequential ==
    \A p \in Procs : Active(p) =>
        /\ proc[p].pc = "update" => Unwritten(p) = {proc[p].action.id}
        /\ proc[p].pc # "update" => Unwritten(p) = {}
        /\ \A id \in txn[p].writes :
              StatusOf(txn[p].view, id) = Expected(hist[p].dispatched[id])
        /\ (proc[p].phase = 2 /\ ~proc[p].force) =>
              \A i \in DOMAIN hist[p].before :
                  hist[p].before[i].status = APPROVED =>
                      hist[p].before[i].id \in txn[p].writes

\* an action of the second phase has been dispatched after the status of
\* an action of the approved sweep was written
C21_Witness ==
    /\ proc["manual"].pc = "update"
    /\ proc["manual"].phase = 2
    /\ ~proc["manual"].force
    /\ Len(hist["manual"].before) = 2
    /\ \E i \in 1..2 :
          /\ hist["manual"].before[i].status = APPROVED
          /\ hist["manual"].before[i].id \in txn["manual"].writes
          /\ hist["manual"].before[3 - i].status = QUEUED
          /\ proc["manual"].action.id = hist["manual"].before[3 - i].id

(***************************************************************************)
(* Claims about the free stake.                                            *)
(***************************************************************************)
\* process p submits the transaction of the allocate it is in
Submits(p) ==
    /\ proc[p].pc = "allocating"
    /\ proc'[p].pc = "update"
    /\ Made("executeTransaction")

\* C22: when two executeActions calls overlap, the same free stake is never
\* counted twice: the amount of an allocateFrom transaction that is
\* submitted never exceeds the free stake the indexer has when it is
\* submitted, whatever an overlapping call has submitted since the capacity
\* was read.
C22_StakeNotCountedTwice ==
    [][\A p \in Procs :
          Submits(p) => ManagerCall(proc[p].action).amount <= freeStake]_vars

\* the sum of the amounts of the first n stored actions that are ALLOCATE
\* actions this call dispatched and that are SUCCESS
RECURSIVE AllocatedBy(_, _)
AllocatedBy(p, n) ==
    IF n = 0 THEN 0
    ELSE AllocatedBy(p, n - 1) +
         (IF /\ actions[n].type = ALLOCATE
             /\ actions[n].id \in Dispatched(p)
             /\ actions[n].status = SUCCESS
          THEN BigNumberFrom(actions[n].amount)
          ELSE 0)

\* C23: within one executeActions call the free stake is read afresh for
\* every allocate: for a batch of ALLOCATE actions on a chain that applies
\* each mined transaction, the total amount of the allocations that reach
\* SUCCESS never exceeds the free stake available when the call started.
C23_BatchWithinFreeStake ==
    \A p \in Procs : Done(p) =>
        /\ AllocatedBy(p, Len(actions)) <= hist[p].stake
        /\ freeStake >= 0

\* of two ALLOCATE actions that together ask for more than the free stake,
\* one has reached SUCCESS and the other has failed the capacity check
C23_Witness ==
    /\ Done("manual")
    /\ Len(actions) = 2
    /\ Dispatched("manual") = {1, 2}
    /\ BigNumberFrom(actions[1].amount) + BigNumberFrom(actions[2].amount)
            > hist["manual"].stake
    /\ \E i \in 1..2 :
          /\ actions[i].status = SUCCESS
          /\ actions[3 - i].status = FAILED
          /\ hist["manual"].dispatched[3 - i] = "IE013"

(***************************************************************************)
(* Claims about allocate in overlapping calls.                             *)
(***************************************************************************)
\* in the calls the last call made, the first call named a comes before the
\* first call named b
Precedes(a, b) ==
    \E k, l \in DOMAIN last'.called :
        /\ k < l
        /\ last'.called[k] = a
        /\ last'.called[l] = b
        /\ \A m \in 1..(l - 1) : last'.called[m] # b

\* C27: when the on-chain state of the allocation id that allocate derived
\* is not Null, allocate aborts and no allocateFrom transaction is
\* submitted; whenever a transaction is submitted, the state of the derived
\* id was checked before and was Null.
C27_ChecksStateBeforeSubmitting ==
    [][\A p \in Procs :
          (proc[p].pc = "allocating" /\ proc'[p].pc = "update") =>
              LET deployment == ManagerCall(proc[p].action).target
                  state == GetAllocationState(
                               Net, AllocationIdFrom(proc[p].read, deployment))
              IN  /\ state # StateNull =>
                        /\ proc'[p].threw
                        /\ ~Made("executeTransaction")
                        /\ UNCHANGED <<freeStake, allocations, rules, receipts>>
                  /\ Made("executeTransaction") =>
                        /\ state = StateNull
                        /\ Precedes("staking.getAllocationState",
                                    "executeTransaction")]_vars

\* an allocate found the id it derived Active on the contract, where an
\* overlapping call had created it after this call had read the active
\* allocations, and threw before the transaction
C27_Witness ==
    /\ last.op = "allocate"
    /\ last.error = "already exists onchain"
    /\ \A k \in DOMAIN last.called : last.called[k] # "executeTransaction"
    /\ \E k \in DOMAIN last.called : last.called[k] = "staking.getAllocationState"
    /\ \E a \in allocations :
          /\ a.deployment = last.target
          /\ a.state = StateActive
          /\ a.id = DerivedId(currentEpoch, last.target, 0)

(***************************************************************************)
(* Claims about allocate.                                                  *)
(***************************************************************************)
\* how often the last call made the call named c
Times(c) == Cardinality({k \in DOMAIN last'.called : last'.called[k] = c})

NetworkUnchanged == UNCHANGED <<freeStake, allocations, rules, receipts>>

\* C24: allocate fails whenever the amount exceeds the indexer's free stake:
\* it submits no allocateFrom transaction, does not call the Subgraph
\* Manager, and leaves the Receipt Collector and the Indexing Rule
\* untouched; when no earlier check rejects the call the error is IE013.
C24_AllocateBeyondCapacity ==
    [][(Calls("allocate") /\ last'.amount > freeStake) =>
          /\ last'.threw
          /\ ~Made("executeTransaction")
          /\ ~Made("subgraphManager.ensure")
          /\ ~Made("receiptCollector.rememberAllocations")
          /\ ~Made("IndexingRule.upsert")
          /\ NetworkUnchanged
          /\ (~\E a \in ActiveAllocations(Net) : a.deployment = last'.target) =>
                last'.error = "IE013"]_vars

\* allocate was called with one token more than the free stake and threw
\* IE013 after reading the capacity
C24_Witness ==
    /\ last.op = "allocate"
    /\ last.amount = freeStake + 1
    /\ last.error = "IE013"
    /\ Len(last.called) > 0
    /\ last.called[Len(last.called)] = "staking.getIndexerCapacity"

\* C28: when the Transaction Manager answers 'paused' or 'unauthorized', or
\* the receipt holds no AllocationCreated event, allocate fails: it does not
\* submit the transaction again, registers no allocation id with the
\* Receipt Collector and does not change the Indexing Rule.  The error
\* names the answer that refused the transaction, or is IE014 when the
\* event is missing.
C28_RefusedAllocateFails ==
    [][(/\ Calls("allocate")
        /\ Made("executeTransaction")
        /\ last'.env.tx \in {"paused", "unauthorized", "noevent"}) =>
          /\ last'.threw
          /\ last'.error = IF last'.env.tx = "noevent" THEN "IE014"
                           ELSE last'.env.tx
          /\ Times("executeTransaction") = 1
          /\ last'.called[Len(last'.called)] = "executeTransaction"
          /\ UNCHANGED <<rules, receipts>>]_vars

\* the Transaction Manager answered 'unauthorized' to an allocate that had
\* passed every check, and allocate threw
C28_Witness ==
    /\ last.op = "allocate"
    /\ last.env.tx = "unauthorized"
    /\ last.threw
    /\ Len(last.called) > 0
    /\ last.called[Len(last.called)] = "executeTransaction"
    /\ rules[last.target] = NoRule

\* C29: every allocate that returns has, in this order, submitted one
\* allocateFrom transaction, registered the id of the allocation created
\* with the Receipt Collector, and upserted the deployment's rule to ALWAYS
\* with the amount; when a call commits, the rule of the deployment of every
\* ALLOCATE action it brought to SUCCESS is ALWAYS with the action's amount.
C29_AllocateBookkeeping ==
    [][/\ (Calls("allocate") /\ ~last'.threw) =>
             /\ Times("executeTransaction") = 1
             /\ Times("receiptCollector.rememberAllocations") = 1
             /\ Times("IndexingRule.upsert") = 1
             /\ Precedes("executeTransaction",
                         "receiptCollector.rememberAllocations")
             /\ Precedes("receiptCollector.rememberAllocations",
                         "IndexingRule.upsert")
             /\ \E a \in allocations' \ allocations :
                   /\ allocations' = allocations \cup {a}
                   /\ a.deployment = last'.target
                   /\ a.allocatedTokens = last'.amount
                   /\ a.state = StateActive
                   /\ receipts' = [receipts EXCEPT !.remembered = @ \cup {a.id}]
             /\ rules' = [rules EXCEPT ![last'.target] =
                             [decisionBasis |-> ALWAYS,
                              amount |-> last'.action.amount]]
       /\ \A p \in Procs : (proc[p].pc = "commit" /\ Done(p)') =>
             \A i \in DOMAIN actions' :
                 (/\ actions'[i].type = ALLOCATE
                  /\ actions'[i].id \in Dispatched(p)
                  /\ actions'[i].status = SUCCESS) =>
                     rules[actions'[i].deploymentID] =
                         [decisionBasis |-> ALWAYS,
                          amount |-> actions'[i].amount]]_vars

\* a call has brought an ALLOCATE action to SUCCESS: the allocation is
\* Active, its id is registered, and the rule is ALWAYS with the amount
C29_Witness ==
    /\ Done("manual")
    /\ \E i \in DOMAIN actions :
          /\ actions[i].type = ALLOCATE
          /\ actions[i].id \in Dispatched("manual")
          /\ actions[i].status = SUCCESS
          /\ rules[actions[i].deploymentID] =
                [decisionBasis |-> ALWAYS, amount |-> actions[i].amount]
          /\ \E a \in allocations :
                /\ a.deployment = actions[i].deploymentID
                /\ a.state = StateActive
                /\ a.id \in receipts.remembered

(***************************************************************************)
(* Claims about unallocate.                                                *)
(***************************************************************************)
\* C30: when the on-chain state of the allocation is not Active at the
\* re-check of unallocate, unallocate aborts: no closeAllocation transaction
\* is submitted, no receipts are collected and the Indexing Rule is not
\* changed.
C30_UnallocateRechecksState ==
    [][(Calls("unallocate") /\ GetAllocationState(Net, last'.target) # StateActive) =>
          /\ last'.threw
          /\ ~Made("executeTransaction")
          /\ ~Made("receiptCollector.collectReceipts")
          /\ ~Made("IndexingRule.upsert")
          /\ NetworkUnchanged
          /\ Made("staking.getAllocationState") =>
                /\ last'.error = "already closed"
                /\ last'.called[Len(last'.called)] = "staking.getAllocationState"]_vars

\* unallocate was called for an allocation of an earlier epoch that is
\* Closed on the contract, and threw at the re-check
C30_Witness ==
    /\ last.op = "unallocate"
    /\ last.error = "already closed"
    /\ \E a \in allocations :
          /\ a.id = last.target
          /\ a.state = StateClosed
          /\ a.createdAtEpoch < currentEpoch
    /\ Len(last.called) > 0
    /\ last.called[Len(last.called)] = "staking.getAllocationState"

(***************************************************************************)
(* Claims about takeAction.                                                *)
(***************************************************************************)
\* takeAction has run for a stored action
Dispatches == last' # last /\ last'.action.id # 0

C26_DispatchByType ==
    [][(Dispatches /\ last'.action.type \in ActionType) =>
          LET action == last'.action
              poi == IF action.poi = Null THEN Undefined ELSE action.poi
              force == IF action.force = Null THEN JsFalse ELSE action.force
              first == IF last'.called = <<>> THEN "none" ELSE last'.called[1]
          IN  CASE action.type = ALLOCATE ->
                    /\ last'.op = "allocate"
                    /\ first = "networkMonitor.allocations"
                    /\ last'.target = action.deploymentID
                    /\ ToString(last'.amount) = action.amount
                [] action.type = UNALLOCATE ->
                    /\ last'.op = "unallocate"
                    /\ first = "networkMonitor.allocation"
                    /\ last'.target = action.allocationID
                    /\ last'.poi = poi
                    /\ last'.force = force
                [] action.type = REALLOCATE ->
                    /\ last'.op = "reallocate"
                    /\ first = "networkSubgraph.query"
                    /\ last'.target = action.allocationID
                    /\ last'.poi = poi
                    /\ ToString(last'.amount) = action.amount
                    /\ last'.force = force
                [] action.type = COLLECT ->
                    /\ last'.op = "collect"
                    /\ first = "networkMonitor.allocation"
                    /\ last'.target = action.allocationID]_vars

\* an UNALLOCATE action stored with a null poi and a null force was
\* dispatched to unallocate with an undefined poi and force false, and the
\* allocation was closed
C26_Witness ==
    /\ last.op = "unallocate"
    /\ last.action.id # 0
    /\ last.action.type = UNALLOCATE
    /\ last.action.poi = SomePOI
    /\ last.action.force = Null
    /\ last.poi = SomePOI
    /\ last.force = JsFalse
    /\ ~last.threw

(***************************************************************************)
(* Claims about the receipts of unallocate and reallocate.                 *)
(***************************************************************************)
\* the transaction was submitted and the Transaction Manager returned a
\* receipt
Mined == Made("executeTransaction") /\ last'.env.tx \notin {"paused", "unauthorized",
                                                          "reverted"}

\* the allocation the last call names, as the contract had it
Target == CHOOSE a \in allocations : a.id = last'.target

\* C31: in unallocate a receipt without AllocationClosed is a failure; a
\* receipt with AllocationClosed but without RewardsAssigned, or with a zero
\* reward, is a success with rewards 0; every successful unallocate
\* triggers receipt collection for the closed allocation and sets the
\* deployment's Indexing Rule to decisionBasis OFFCHAIN.
C31_UnallocateReceipt ==
    [][(Calls("unallocate") /\ Mined) =>
          /\ last'.env.tx \in {"noevent", "noclose"} =>
                /\ last'.threw
                /\ ~Made("receiptCollector.collectReceipts")
                /\ UNCHANGED <<rules, receipts>>
          /\ last'.env.tx \in {"norewards", "zerorewards"} =>
                /\ ~last'.threw
                /\ last'.rewards = 0
          /\ ~last'.threw =>
                /\ Precedes("executeTransaction", "receiptCollector.collectReceipts")
                /\ receipts' = [receipts EXCEPT !.collected = @ \cup {last'.target}]
                /\ GetAllocationState(Net', last'.target) = StateClosed
                /\ rules' = [rules EXCEPT ![Target.deployment].decisionBasis =
                                              OFFCHAIN]]_vars

\* unallocate closed an allocation with a receipt that holds no
\* RewardsAssigned event
C31_Witness ==
    /\ last.op = "unallocate"
    /\ last.env.tx = "norewards"
    /\ ~last.threw
    /\ last.rewards = 0
    /\ last.target \in receipts.collected
    /\ GetAllocationState(Net, last.target) = StateClosed
    /\ \E a \in allocations :
          a.id = last.target /\ rules[a.deployment].decisionBasis = OFFCHAIN

\* the error of the first precondition of reallocate that does not hold,
\* in the order of the claim; "none" when all hold
FirstUnmet(target, amount, e) ==
    LET view == SubgraphView(Net, e)
        active == {a \in view.allocations : a.state = StateActive /\ a.id = target}
        a == CHOOSE a \in active : TRUE
    IN  IF active = {} THEN "no active allocation"
        ELSE IF a.createdAtEpoch = currentEpoch THEN "created this epoch"
        ELSE IF e.collaborator = "throwsPOI" THEN "collaborator"
        ELSE IF GetAllocationState(Net, target) # StateActive THEN "already closed"
        ELSE IF amount < 0 THEN "negative amount"
        ELSE IF amount = 0 THEN "zero amount"
        ELSE IF amount > freeStake + a.allocatedTokens THEN "IE013"
        ELSE IF GetAllocationState(Net,
                    UniqueAllocationID(currentEpoch, a.deployment,
                        {b.id : b \in ActiveAllocations(view)})) # StateNull
        THEN "already exists onchain"
        ELSE "none"

C33_ReallocateReceipt ==
    [][(Calls("reallocate") /\ Mined) =>
          IF last'.env.tx \in {"noevent", "nocreate", "noclose"}
          THEN /\ last'.threw
               /\ ~Made("receiptCollector.collectReceipts")
               /\ UNCHANGED <<rules, receipts>>
          ELSE /\ ~last'.threw
               /\ last'.rewards = (IF last'.env.tx = "receipt" THEN SomeRewards ELSE 0)
               /\ Precedes("executeTransaction", "receiptCollector.collectReceipts")
               /\ receipts' = [receipts EXCEPT !.collected = @ \cup {last'.target}]
               /\ rules' = [rules EXCEPT ![Target.deployment] =
                               [decisionBasis |-> ALWAYS,
                                amount |-> ToString(last'.amount)]]]_vars

\* reallocate succeeded with a receipt that holds AllocationCreated and
\* AllocationClosed and no RewardsAssigned
C33_Witness ==
    /\ last.op = "reallocate"
    /\ last.env.tx = "norewards"
    /\ ~last.threw
    /\ last.rewards = 0
    /\ last.target \in receipts.collected
    /\ \E a \in allocations :
          /\ a.id = last.target
          /\ a.state = StateClosed
          /\ rules[a.deployment] = [decisionBasis |-> ALWAYS,
                                    amount |-> ToString(last.amount)]

(***************************************************************************)
(* Claims about the parameters of the stored actions.                      *)
(***************************************************************************)
Populated(v) == v # Null

\* a force flag that is absent or false asks for nothing
Forces(row) == row.force = JsTrue

RelevantParameters(row) ==
    CASE row.type = ALLOCATE ->
           /\ Populated(row.deploymentID) /\ Populated(row.amount)
           /\ ~Populated(row.allocationID) /\ ~Populated(row.poi)
           /\ ~Forces(row)
      [] row.type = UNALLOCATE ->
           /\ Populated(row.allocationID)
           /\ ~Populated(row.deploymentID) /\ ~Populated(row.amount)
      [] row.type = REALLOCATE ->
           /\ Populated(row.allocationID) /\ Populated(row.amount)
           /\ ~Populated(row.deploymentID)
      [] row.type = COLLECT ->
           /\ Populated(row.allocationID)
           /\ ~Populated(row.deploymentID) /\ ~Populated(row.amount)
           /\ ~Populated(row.poi) /\ ~Forces(row)
      [] OTHER -> FALSE

\* C34: every stored action has exactly the target parameters of its type
\* populated and the others null: ALLOCATE deploymentID and amount,
\* UNALLOCATE allocationID (poi and force optional), REALLOCATE allocationID
\* and amount (poi and force optional), COLLECT allocationID only
C34_OnlyRelevantParameters ==
    \A i \in 1..Len(actions) : RelevantParameters(actions[i])

(***************************************************************************)
(* Claims about canceled actions and the worker.                           *)
(***************************************************************************)
HasStatus(id, statuses) ==
    id \in StoredIds(actions) /\ StatusOf(actions, id) \in statuses

\* C35: with the worker running, every action that is APPROVED and is not
\* canceled afterwards eventually is SUCCESS or FAILED
C35_ApprovedIsSettled ==
    \A id \in 1..MaxTicked :
        HasStatus(id, {APPROVED}) ~> HasStatus(id, {SUCCESS, FAILED, CANCELED})

\* C36: every action a call dispatches was APPROVED or QUEUED in the store
\* when the call selected its work, never CANCELED, SUCCESS, FAILED or
\* PENDING; an action canceled between the worker's fetch and its call is
\* not dispatched
C36_DispatchesOnlySelectable ==
    \A p \in Procs : \A id \in Dispatched(p) :
        /\ id \in StoredIds(hist[p].before)
        /\ StatusOf(hist[p].before, id) \in {APPROVED, QUEUED}

\* the worker fetched action 1 as APPROVED, the action was canceled before
\* the call began, and the call has ended without dispatching it
C36_Witness ==
    /\ Done("worker")
    /\ 1 \in proc["worker"].actionIDs
    /\ Len(hist["worker"].before) >= 1
    /\ hist["worker"].before[1].status = CANCELED
    /\ 1 \notin Dispatched("worker")
    /\ actions[1].status = CANCELED

\* C37: no step of executeActions changes a CANCELED action to SUCCESS or
\* FAILED, also when the cancel took effect during the dispatch
C37_CanceledStaysCanceled ==
    [][\A i \in DOMAIN actions :
          actions[i].status = CANCELED =>
              actions'[i].status \notin {SUCCESS, FAILED}]_vars

\* action 1 was canceled after the worker's call had selected it; the call
\* dispatched it, its status update failed, and the action is CANCELED
C37_Witness ==
    /\ Done("worker")
    /\ hist["worker"].result = "rejected"
    /\ 1 \in Dispatched("worker")
    /\ Len(actions) >= 1
    /\ actions[1].status = CANCELED

(***************************************************************************)
(* Claims about the lifetime of an action.                                 *)
(***************************************************************************)
\* takeAction has run for the action and its status is about to be written
BeingDispatched(id) ==
    \E p \in Procs : proc[p].pc = "update" /\ proc[p].action.id = id

\* C38: over operations that do not overlap, an action that has reached
\* SUCCESS or FAILED is never dispatched again
C38_DispatchedOnce ==
    \A id \in 1..MaxActions :
        [](HasStatus(id, {SUCCESS, FAILED}) => []~BeingDispatched(id))

(***************************************************************************)
(* Claims about the end of a call.                                         *)
(***************************************************************************)
\* takeAction has thrown in this step: the status written next is FAILED
DispatchThrew(p) ==
    /\ proc[p].pc = "takeAction"
    /\ proc'[p].pc = "update"
    /\ proc'[p].threw

\* C39: the dispatch after which executeActions marks an action FAILED has
\* left no effect on the chain: the allocations and the free stake are as
\* they were before it
C39_FailedHasNoEffect ==
    [][\A p \in Procs :
          DispatchThrew(p) => UNCHANGED <<allocations, freeStake>>]_vars

\* the call ends in this step, committed or aborted
Ends(p) == proc[p].pc # "done" /\ proc'[p].pc = "done"

\* C40: when a call has ended, committed or aborted, every action it
\* dispatched is SUCCESS or FAILED in the store
C40_DispatchedIsSettled ==
    [][\A p \in Procs : Ends(p) =>
          \A i \in DOMAIN actions' :
              actions'[i].id \in Dispatched(p) =>
                  actions'[i].status \in {SUCCESS, FAILED}]_vars

====
